---- MODULE Spec2Model ----
(***************************************************************************)
(* Stake accounting and entity-activation state machine of the registry    *)
(* program (registry/src/accounts, registry/program/src) together with the *)
(* staking pool it calls (stake/program/src, pool/src/context.rs).         *)
(*                                                                         *)
(* One action per instruction handler.  A handler that returns an error or *)
(* panics leaves every account as it was (the runtime discards the writes  *)
(* of a failed instruction): a failed instruction is a stuttering step and *)
(* the error it returns is the value of the handler's ...Result operator.  *)
(*                                                                         *)
(* u64 arithmetic: the sources use the plain operators += -= * +.  A build *)
(* with overflow checks panics when a result leaves the range, a build     *)
(* without them wraps.  The variable overflow_checks is the build; it is   *)
(* chosen once in Init.  The word is scaled from 2^64 to U64 values.       *)
(***************************************************************************)
EXTENDS Integers, Sequences, FiniteSets, TLC

\* ------------------------------------------------------------------ bounds
U64 == 536870912
MaxAmount == 1
MaxBalance == 1
MaxVault == 2
MaxClock == 3
MaxCost == 2
MaxPrice == 2
MaxHeld == 2
MaxQuantity == 1
reward_activation_threshold == 1000001
withdrawal_timelock == 1
deactivation_timelock_premium == 1
MSRM_VALUE == 1000000

Entities == {"e1", "e2"}
Members == {"m1"}
Receipts == {"w1"}
Delegates == {"d1", "d2"}
Amounts == 1..MaxAmount

VARIABLES
  overflow_checks,  \* the build: TRUE panics on overflow, FALSE wraps
  clock,            \* Clock.unix_timestamp
  entity,           \* Entity accounts
  member,           \* Member accounts
  pw,               \* PendingWithdrawal accounts
  pool,             \* SRM staking pool: pool-token supply and asset vault
  mega_pool,        \* MSRM staking pool: supply and <<SRM vault, MSRM vault>>
  hist,             \* what the delegate is still owed, payouts made per receipt
  last,             \* the last instruction that succeeded and its FSM evaluations
  rd                \* input and result of one call of a Member method

vars == <<overflow_checks, clock, entity, member, pw, pool, mega_pool, hist, last, rd>>

\* ------------------------------------------------------------ u64 arithmetic
OutOfRange(x) == x < 0 \/ x >= U64
Wrap(x) == x % U64
MulOverflows(a, b) == a # 0 /\ b > (U64 - 1) \div a

RECURSIVE MulMod(_, _)
MulMod(a, b) ==
  IF b = 0 THEN 0
  ELSE LET h == MulMod(a, b \div 2)
           d == (h + h) % U64
       IN  IF b % 2 = 1 THEN (d + a) % U64 ELSE d

\* a * b in the word: exact when it fits, wrapped otherwise
Mul(a, b) == IF MulOverflows(a, b) THEN MulMod(a, b) ELSE a * b
Add(a, b) == (a + b) % U64

\* ------------------------------------------------------------ StakeContext
DefaultCtx == [basket |-> <<0>>, mega_basket |-> <<0, 0>>]

\* faulty variant of srm_equivalent: the first quantity of the mega basket,
\* not the second, is weighed by 1_000_000
srm_equivalent_first_weighed(ctx, spt_count, is_mega) ==
  IF is_mega
  THEN Add(Mul(Mul(spt_count, ctx.mega_basket[1]), MSRM_VALUE),
           Mul(spt_count, ctx.mega_basket[2]))
  ELSE Mul(spt_count, ctx.basket[1])

\* StakeContext::srm_equivalent; quantities[0] is [1] here, quantities[1] is [2]
srm_equivalent(ctx, spt_count, is_mega) ==
  IF is_mega
  THEN Add(Mul(spt_count, ctx.mega_basket[1]),
           Mul(Mul(spt_count, ctx.mega_basket[2]), MSRM_VALUE))
  ELSE Mul(spt_count, ctx.basket[1])

srm_equivalent_overflows(ctx, spt_count, is_mega) ==
  IF is_mega
  THEN \/ MulOverflows(spt_count, ctx.mega_basket[1])
       \/ MulOverflows(spt_count, ctx.mega_basket[2])
       \/ MulOverflows(spt_count * ctx.mega_basket[2], MSRM_VALUE)
       \/ spt_count * ctx.mega_basket[1]
            + spt_count * ctx.mega_basket[2] * MSRM_VALUE >= U64
  ELSE MulOverflows(spt_count, ctx.basket[1])

\* StakeContext::basket_quantities: checked_mul, None (CheckedFailure) on overflow
basket_quantities_fails(ctx, spt_count, mega) ==
  LET b == IF mega THEN ctx.mega_basket ELSE ctx.basket
  IN  \E i \in 1..Len(b) : MulOverflows(b[i], spt_count)

\* faulty variant of basket_quantities: the quantities are not multiplied
basket_quantities_unscaled(ctx, spt_count, mega) ==
  IF mega THEN ctx.mega_basket ELSE ctx.basket

basket_quantities(ctx, spt_count, mega) ==
  LET b == IF mega THEN ctx.mega_basket ELSE ctx.basket
  IN  [i \in 1..Len(b) |-> b[i] * spt_count]

\* StakeContext::basket_primary_asset is called by the stake handler and is
\* not among the sources: the first quantity of the selected basket.
basket_primary_asset(ctx, spt_count, mega) ==
  IF mega THEN Mul(spt_count, ctx.mega_basket[1]) ELSE Mul(spt_count, ctx.basket[1])

\* ------------------------------------------------------------------ Registrar
\* faulty variant of deactivation_timelock: the premium is left out
deactivation_timelock_no_premium == withdrawal_timelock

\* Registrar::deactivation_timelock
deactivation_timelock == deactivation_timelock_premium + withdrawal_timelock

\* --------------------------------------------------------------------- Entity
EntityBalances0 ==
  [spt_amount |-> 0, spt_mega_amount |-> 0,
   pending_withdrawals |-> 0, mega_pending_withdrawals |-> 0,
   stake_intent |-> 0, mega_stake_intent |-> 0]

Inactive == [tag |-> "Inactive", deactivation_start_ts |-> 0, timelock |-> 0]
Active == [tag |-> "Active", deactivation_start_ts |-> 0, timelock |-> 0]
PendingDeactivation(ts, tl) ==
  [tag |-> "PendingDeactivation", deactivation_start_ts |-> ts, timelock |-> tl]

Entity0 == [balances |-> EntityBalances0, generation |-> 0, state |-> Inactive]

EntityFields ==
  {"spt_amount", "spt_mega_amount", "pending_withdrawals",
   "mega_pending_withdrawals", "stake_intent", "mega_stake_intent"}

\* The bookkeeping below computes the exact result; EntityOverflows says
\* whether a field left the range (each handler moves a field one way only),
\* WrapEntity is what a build without overflow checks stores.
EntityOverflows(e) ==
  \/ \E f \in EntityFields : OutOfRange(e.balances[f])
  \/ OutOfRange(e.generation)
WrapEntity(e) ==
  [e EXCEPT !.balances = [f \in EntityFields |-> Wrap(e.balances[f])],
            !.generation = Wrap(e.generation)]

add_stake_intent(e, amount, mega) ==
  IF mega THEN [e EXCEPT !.balances.mega_stake_intent = @ + amount]
  ELSE [e EXCEPT !.balances.stake_intent = @ + amount]

sub_stake_intent(e, amount, mega) ==
  IF mega THEN [e EXCEPT !.balances.mega_stake_intent = @ - amount]
  ELSE [e EXCEPT !.balances.stake_intent = @ - amount]

spt_add(e, amount, is_mega) ==
  IF is_mega THEN [e EXCEPT !.balances.spt_mega_amount = @ + amount]
  ELSE [e EXCEPT !.balances.spt_amount = @ + amount]

spt_sub(e, amount, is_mega) ==
  IF is_mega THEN [e EXCEPT !.balances.spt_mega_amount = @ - amount]
  ELSE [e EXCEPT !.balances.spt_amount = @ - amount]

pending_sub(e, amount, is_mega) ==
  IF is_mega THEN [e EXCEPT !.balances.mega_pending_withdrawals = @ - amount]
  ELSE [e EXCEPT !.balances.pending_withdrawals = @ - amount]

pending_add(e, amount, is_mega) ==
  IF is_mega THEN [e EXCEPT !.balances.mega_pending_withdrawals = @ + amount]
  ELSE [e EXCEPT !.balances.pending_withdrawals = @ + amount]

transfer_pending_withdrawal(e, spt_amount, asset_amounts, mega) ==
  IF mega
  THEN [e EXCEPT !.balances.spt_mega_amount = @ - spt_amount,
                 !.balances.pending_withdrawals = @ + asset_amounts[1],
                 !.balances.mega_pending_withdrawals = @ + asset_amounts[2]]
  ELSE [e EXCEPT !.balances.spt_amount = @ - spt_amount,
                 !.balances.pending_withdrawals = @ + asset_amounts[1]]

amount_equivalent(e, ctx) ==
  Add(srm_equivalent(ctx, e.balances.spt_amount, FALSE),
      srm_equivalent(ctx, e.balances.spt_mega_amount, TRUE))

stake_intent_equivalent(e) ==
  Add(e.balances.stake_intent, Mul(e.balances.mega_stake_intent, MSRM_VALUE))

activation_amount(e, ctx) ==
  Add(amount_equivalent(e, ctx), stake_intent_equivalent(e))

\* some + or * of activation_amount leaves the range
activation_amount_overflows(e, ctx) ==
  \/ srm_equivalent_overflows(ctx, e.balances.spt_amount, FALSE)
  \/ srm_equivalent_overflows(ctx, e.balances.spt_mega_amount, TRUE)
  \/ MulOverflows(e.balances.mega_stake_intent, MSRM_VALUE)
  \/ LET a == srm_equivalent(ctx, e.balances.spt_amount, FALSE)
         b == srm_equivalent(ctx, e.balances.spt_mega_amount, TRUE)
         c == e.balances.stake_intent
         d == e.balances.mega_stake_intent * MSRM_VALUE
     IN  \/ a + b >= U64
         \/ c + d >= U64
         \/ (a + b) + (c + d) >= U64

\* faulty variant of meets_activation_requirements: the threshold itself
\* does not activate
meets_activation_requirements_strict(e, ctx) ==
  /\ activation_amount(e, ctx) > reward_activation_threshold
  /\ e.balances.spt_mega_amount >= 1

\* faulty variant of meets_activation_requirements: no mega pool token asked
meets_activation_requirements_no_mega(e, ctx) ==
  activation_amount(e, ctx) >= reward_activation_threshold

meets_activation_requirements(e, ctx) ==
  /\ activation_amount(e, ctx) >= reward_activation_threshold
  /\ e.balances.spt_mega_amount >= 1

\* faulty variant of transition_activation_if_needed: an Active entity that no
\* longer meets the requirements is made Inactive at once
transition_skips_timelock(e, ctx, now) ==
  CASE e.state.tag = "Inactive" ->
         IF meets_activation_requirements(e, ctx)
         THEN [e EXCEPT !.state = Active, !.generation = @ + 1]
         ELSE e
    [] e.state.tag = "PendingDeactivation" ->
         IF now > e.state.deactivation_start_ts + e.state.timelock
         THEN [e EXCEPT !.state = Inactive]
         ELSE e
    [] e.state.tag = "Active" ->
         IF ~meets_activation_requirements(e, ctx)
         THEN [e EXCEPT !.state = Inactive]
         ELSE e

\* faulty variant of transition_activation_if_needed: a deactivation counts
\* as a generation
transition_counts_deactivation(e, ctx, now) ==
  CASE e.state.tag = "Inactive" ->
         IF meets_activation_requirements(e, ctx)
         THEN [e EXCEPT !.state = Active, !.generation = @ + 1]
         ELSE e
    [] e.state.tag = "PendingDeactivation" ->
         IF now > e.state.deactivation_start_ts + e.state.timelock
         THEN [e EXCEPT !.state = Inactive]
         ELSE e
    [] e.state.tag = "Active" ->
         IF ~meets_activation_requirements(e, ctx)
         THEN [e EXCEPT !.state = PendingDeactivation(now, deactivation_timelock),
                        !.generation = @ + 1]
         ELSE e

\* faulty variant of transition_activation_if_needed: the timelock ends one
\* reading early
transition_timelock_inclusive(e, ctx, now) ==
  CASE e.state.tag = "Inactive" ->
         IF meets_activation_requirements(e, ctx)
         THEN [e EXCEPT !.state = Active, !.generation = @ + 1]
         ELSE e
    [] e.state.tag = "PendingDeactivation" ->
         IF now >= e.state.deactivation_start_ts + e.state.timelock
         THEN [e EXCEPT !.state = Inactive]
         ELSE e
    [] e.state.tag = "Active" ->
         IF ~meets_activation_requirements(e, ctx)
         THEN [e EXCEPT !.state = PendingDeactivation(now, deactivation_timelock)]
         ELSE e

transition_activation_if_needed(e, ctx, now) ==
  CASE e.state.tag = "Inactive" ->
         IF meets_activation_requirements(e, ctx)
         THEN [e EXCEPT !.state = Active, !.generation = @ + 1]
         ELSE e
    [] e.state.tag = "PendingDeactivation" ->
         IF now > e.state.deactivation_start_ts + e.state.timelock
         THEN [e EXCEPT !.state = Inactive]
         ELSE e
    [] e.state.tag = "Active" ->
         IF ~meets_activation_requirements(e, ctx)
         THEN [e EXCEPT !.state = PendingDeactivation(now, deactivation_timelock)]
         ELSE e

\* the arms that compute activation_amount can panic in it
transition_overflows(e, ctx) ==
  /\ e.state.tag \in {"Inactive", "Active"}
  /\ activation_amount_overflows(e, ctx)

\* --------------------------------------------------------------------- Member
MemberBalances0 ==
  [spt_amount |-> 0, spt_mega_amount |-> 0, stake_intent |-> 0,
   mega_stake_intent |-> 0, cost_basis |-> 0, mega_cost_basis |-> 0]

MemberFields ==
  {"spt_amount", "spt_mega_amount", "stake_intent", "mega_stake_intent",
   "cost_basis", "mega_cost_basis"}

BookNames == {"main", "delegate"}
BookOf(delegate) == IF delegate THEN "delegate" ELSE "main"

\* MemberBooks::new
MemberBooksNew(beneficiary, delegate) ==
  [main |-> [owner |-> beneficiary, balances |-> MemberBalances0],
   delegate |-> [owner |-> delegate, balances |-> MemberBalances0]]

\* the zero-initialised account before CreateMember
Member0 ==
  [initialized |-> FALSE, entity |-> "none", generation |-> 0,
   books |-> MemberBooksNew("none", "none"),
   last_active_stake_ctx |-> DefaultCtx]

MemberOverflows(mem) ==
  \E b \in BookNames, f \in MemberFields : OutOfRange(mem.books[b].balances[f])
WrapMember(mem) ==
  [mem EXCEPT !.books =
     [b \in BookNames |->
        [mem.books[b] EXCEPT !.balances =
           [f \in MemberFields |-> Wrap(mem.books[b].balances[f])]]]]

stake_intent(mem, mega, delegate) ==
  IF mega THEN mem.books[BookOf(delegate)].balances.mega_stake_intent
  ELSE mem.books[BookOf(delegate)].balances.stake_intent

stake_intent_did_deposit(mem, amount, mega, delegate) ==
  IF mega
  THEN [mem EXCEPT !.books[BookOf(delegate)].balances.mega_stake_intent = @ + amount,
                   !.books[BookOf(delegate)].balances.mega_cost_basis = @ + amount]
  ELSE [mem EXCEPT !.books[BookOf(delegate)].balances.stake_intent = @ + amount,
                   !.books[BookOf(delegate)].balances.cost_basis = @ + amount]

stake_intent_did_withdraw(mem, amount, mega, delegate) ==
  IF mega
  THEN [mem EXCEPT !.books[BookOf(delegate)].balances.mega_stake_intent = @ - amount,
                   !.books[BookOf(delegate)].balances.mega_cost_basis = @ - amount]
  ELSE [mem EXCEPT !.books[BookOf(delegate)].balances.stake_intent = @ - amount,
                   !.books[BookOf(delegate)].balances.cost_basis = @ - amount]

\* Member::sub_stake_intent is called by the stake handler and is not among
\* the sources: the stake-intent balance is debited, the cost basis stays.
member_sub_stake_intent(mem, amount, mega, delegate) ==
  IF mega
  THEN [mem EXCEPT !.books[BookOf(delegate)].balances.mega_stake_intent = @ - amount]
  ELSE [mem EXCEPT !.books[BookOf(delegate)].balances.stake_intent = @ - amount]

spt_did_create(mem, stake_ctx, amount, mega, delegate) ==
  IF mega
  THEN [mem EXCEPT !.books[BookOf(delegate)].balances.spt_mega_amount = @ + amount,
                   !.last_active_stake_ctx = stake_ctx]
  ELSE [mem EXCEPT !.books[BookOf(delegate)].balances.spt_amount = @ + amount,
                   !.last_active_stake_ctx = stake_ctx]

RedemptionBasket(asset, mega_asset) == [asset |-> asset, mega_asset |-> mega_asset]

\* faulty variant of cost_and_excess: the delegate is handed the whole price
cost_and_excess_uncapped(price, cost_basis) ==
  IF price > cost_basis
  THEN [cost |-> price, excess |-> price - cost_basis]
  ELSE [cost |-> price, excess |-> 0]

\* the match of the delegate branches: what goes to the delegate, what is left
cost_and_excess(price, cost_basis) ==
  IF price > cost_basis
  THEN [cost |-> cost_basis, excess |-> price - cost_basis]
  ELSE [cost |-> price, excess |-> 0]

\* Member::spt_did_redeem: the updated member and the (main, delegate) legs
spt_did_redeem(mem, spt_amount, purchase_price, mega, delegate) ==
  LET d == mem.books.delegate.balances
      mn == mem.books.main.balances
  IN
  IF delegate
  THEN IF mega
       THEN LET a == cost_and_excess(purchase_price[1], d.cost_basis)
                ma == cost_and_excess(purchase_price[2], d.mega_cost_basis)
                asset_cost == a.cost
                asset_excess == a.excess
                mega_asset_cost == ma.cost
                mega_asset_excess == ma.excess
            IN  [member |->
                   [mem EXCEPT !.books.delegate.balances.spt_mega_amount = @ - spt_amount,
                               !.books.delegate.balances.cost_basis = @ - asset_cost,
                               !.books.delegate.balances.mega_cost_basis = @ - mega_asset_cost],
                 main |-> RedemptionBasket(asset_excess, mega_asset_excess),
                 delegate |-> RedemptionBasket(asset_cost, mega_asset_cost)]
       ELSE LET a == cost_and_excess(purchase_price[1], d.cost_basis)
                delegate_asset == a.cost
                asset_excess == a.excess
            IN  [member |->
                   [mem EXCEPT !.books.delegate.balances.spt_amount = @ - spt_amount,
                               !.books.delegate.balances.cost_basis = @ - delegate_asset],
                 main |-> RedemptionBasket(asset_excess, 0),
                 delegate |-> RedemptionBasket(delegate_asset, 0)]
  ELSE IF mega
       THEN LET cost == IF purchase_price[1] >= mn.cost_basis
                        THEN mn.cost_basis ELSE purchase_price[1]
                mega_cost == IF purchase_price[2] >= mn.mega_cost_basis
                             THEN mn.mega_cost_basis ELSE purchase_price[2]
            IN  [member |->
                   [mem EXCEPT !.books.main.balances.spt_mega_amount = @ - spt_amount,
                               !.books.main.balances.cost_basis = @ - cost,
                               !.books.main.balances.mega_cost_basis = @ - mega_cost],
                 main |-> RedemptionBasket(purchase_price[1], purchase_price[2]),
                 delegate |-> RedemptionBasket(0, 0)]
       ELSE LET cost == IF purchase_price[1] >= mn.cost_basis
                        THEN mn.cost_basis ELSE purchase_price[1]
            IN  [member |->
                   [mem EXCEPT !.books.main.balances.spt_amount = @ - spt_amount,
                               !.books.main.balances.cost_basis = @ - cost],
                 main |-> RedemptionBasket(purchase_price[1], 0),
                 delegate |-> RedemptionBasket(0, 0)]

\* as written: TRUE when some book holds pool tokens
stake_is_empty(mem) ==
  \/ mem.books.main.balances.spt_amount # 0
  \/ mem.books.main.balances.spt_mega_amount # 0
  \/ mem.books.delegate.balances.spt_amount # 0
  \/ mem.books.delegate.balances.spt_mega_amount # 0

\* Member::set_delegate; the assert is set_delegate_panics
set_delegate_panics(mem) == mem.books.delegate.balances.spt_amount # 0
set_delegate(mem, delegate) ==
  [mem EXCEPT !.books.delegate = [owner |-> delegate, balances |-> MemberBalances0]]

\* ------------------------------------------------------------- staking pool
\* PoolContext::get_simple_basket: checked_mul then checked_div per asset
get_simple_basket_fails(p, requested) ==
  \/ p.supply = 0
  \/ \E i \in 1..Len(p.vault) : MulOverflows(p.vault[i], requested)

get_simple_basket(p, requested) ==
  [i \in 1..Len(p.vault) |-> (p.vault[i] * requested) \div p.supply]

\* get_basket handler: an empty pool prices a token at one of the first asset
get_basket_fails(p, spt_amount) ==
  p.supply # 0 /\ get_simple_basket_fails(p, spt_amount)

get_basket(p, spt_amount) ==
  IF p.supply = 0
  THEN [i \in 1..Len(p.vault) |-> IF i = 1 THEN spt_amount ELSE 0]
  ELSE get_simple_basket(p, spt_amount)

\* creation handler: an empty SRM pool takes spt_amount SRM, an empty MSRM pool
\* takes 0 SRM and spt_amount MSRM
creation_fails(p, spt_amount) ==
  p.supply # 0 /\ get_simple_basket_fails(p, spt_amount)

creation_basket(p, spt_amount) ==
  IF p.supply = 0
  THEN IF Len(p.vault) = 1 THEN <<spt_amount>> ELSE <<0, spt_amount>>
  ELSE get_simple_basket(p, spt_amount)

creation(p, spt_amount) ==
  [supply |-> p.supply + spt_amount,
   vault |-> [i \in 1..Len(p.vault) |-> p.vault[i] + creation_basket(p, spt_amount)[i]]]

\* redemption handler: asserts one asset, burns quantities[0] pool tokens and
\* pays quantities[0] of the asset out of the vault
redemption_fails(p, spt_amount) ==
  \/ Len(p.vault) # 1
  \/ get_simple_basket_fails(p, spt_amount)
  \/ get_simple_basket(p, spt_amount)[1] > p.supply

redemption(p, spt_amount) ==
  LET asset_amount == get_simple_basket(p, spt_amount)[1]
  IN  [supply |-> p.supply - asset_amount,
       vault |-> <<p.vault[1] - asset_amount>>]

Pool0 == [supply |-> 0, vault |-> <<0>>]
MegaPool0 == [supply |-> 0, vault |-> <<0, 0>>]

\* pool::parse_accounts / with_entity: the context of one instruction
StakeContextNew == [basket |-> get_basket(pool, 1), mega_basket |-> get_basket(mega_pool, 1)]
StakeContextFails == get_basket_fails(pool, 1) \/ get_basket_fails(mega_pool, 1)

\* --------------------------------------------------------- history variables
\* An instruction that returns an error or panics writes nothing: it is a
\* stuttering step, and its error is the value of the handler's ...Result
\* operator in that state.

\* hist.owed[m]: the deposits into the delegate book of m less what was paid to
\* the delegate (delegate legs of redemptions, delegate stake-intent
\* withdrawals), per asset.  hist.payouts[w]: the end-withdrawals that succeeded
\* on receipt w.
\* hist.vault: the tokens in the stake-intent vaults (SRM, MSRM).
\* hist.depositor: the token accounts deposits are made from and stake-intent
\* is withdrawn to, as the change of their balances since the start.
Hist0 ==
  [owed |-> [m \in Members |-> RedemptionBasket(0, 0)],
   payouts |-> [w \in Receipts |-> 0],
   vault |-> RedemptionBasket(0, 0),
   depositor |-> RedemptionBasket(0, 0)]

\* invoke_token_transfer of `amount` from the depositor's token account into
\* the vault (a negative amount: out of the vault, back to the depositor)
token_transfer(h, amount, mega) ==
  IF mega
  THEN [h EXCEPT !.vault.mega_asset = @ + amount, !.depositor.mega_asset = @ - amount]
  ELSE [h EXCEPT !.vault.asset = @ + amount, !.depositor.asset = @ - amount]

\* what a round trip has to restore: the addressed book of the member, the
\* entity's balances and the token accounts
Snapshot(m, e, is_delegate) ==
  [book |-> member[m].books[BookOf(is_delegate)].balances,
   entity |-> entity[e].balances,
   vault |-> hist.vault,
   depositor |-> hist.depositor]

owed_add(h, m, amount, mega, delegate) ==
  IF ~delegate THEN h
  ELSE IF mega THEN [h EXCEPT !.owed[m].mega_asset = @ + amount]
  ELSE [h EXCEPT !.owed[m].asset = @ + amount]

owed_paid(h, m, basket) ==
  [h EXCEPT !.owed[m].asset = @ - basket.asset,
            !.owed[m].mega_asset = @ - basket.mega_asset]

\* A deposit and a stake-intent withdrawal also record their arguments; the
\* deposit keeps what the accounts held before it, the withdrawal whether it
\* takes back exactly what the instruction before it deposited.
\* `last` names the last instruction that succeeded and lists the evaluations
\* of the activation state machine it made: the entity account, the stake
\* context, the entity as it was handed to transition_activation_if_needed and
\* as it came back.  The clock reading of the instruction is `clock`.
NoRecord == [op |-> "none", evals |-> <<>>]
Evaluation(e, ctx, before, after) ==
  [e |-> e, ctx |-> ctx, before |-> before, after |-> after]

\* what the caller brings: who signed and which delegate key was passed
AuthOk(d) ==
  [beneficiary_signer |-> TRUE, delegate_signer |-> TRUE,
   tok_authority_signer |-> TRUE, delegate_owner |-> d]
AuthInputs ==
  {AuthOk(d) : d \in Delegates}
    \cup {[AuthOk("d1") EXCEPT !.beneficiary_signer = FALSE],
          [AuthOk("d1") EXCEPT !.delegate_signer = FALSE],
          [AuthOk("d1") EXCEPT !.tok_authority_signer = FALSE]}

\* access_control::member is not among the sources: the member account is
\* initialized and belongs to the entity account that was passed
access_control_member(m, e) ==
  IF ~member[m].initialized THEN "NotInitialized"
  ELSE IF member[m].entity # e THEN "MemberEntityMismatch"
  ELSE "ok"

\* ----------------------------------------------------------------------- Init
PendingWithdrawal0 ==
  [initialized |-> FALSE, burned |-> FALSE, member |-> "none", delegate |-> FALSE,
   start_ts |-> 0, end_ts |-> 0, spt_amount |-> 0, pool |-> "none",
   payment |-> RedemptionBasket(0, 0), delegate_payment |-> RedemptionBasket(0, 0)]

RdIdle == [phase |-> "idle"]

InitRegistry ==
  /\ overflow_checks \in BOOLEAN
  /\ clock = 0
  /\ entity = [e \in Entities |-> Entity0]
  /\ member = [m \in Members |-> Member0]
  /\ pw = [w \in Receipts |-> PendingWithdrawal0]
  /\ pool = Pool0
  /\ mega_pool = MegaPool0
  /\ hist = Hist0
  /\ last = NoRecord

Init == InitRegistry /\ rd = RdIdle

\* -------------------------------------------------------------- create_member
CreateMemberResult(m) ==
  IF member[m].initialized THEN "AlreadyInitialized" ELSE "ok"

CreateMember(m, e, d) ==
  /\ CreateMemberResult(m) = "ok"
  /\ member' = [member EXCEPT ![m] =
                  [initialized |-> TRUE, entity |-> e, generation |-> 0,
                   books |-> MemberBooksNew("beneficiary", d),
                   last_active_stake_ctx |-> DefaultCtx]]
  /\ last' = [NoRecord EXCEPT !.op = "create_member"]
  /\ UNCHANGED <<overflow_checks, clock, entity, pw, pool, mega_pool, hist, rd>>

\* -------------------------------------------------------------------- deposit
deposit_access_control(m, e, is_delegate, auth) ==
  IF ~auth.beneficiary_signer THEN "Unauthorized"
  ELSE IF is_delegate /\ ~auth.delegate_signer THEN "Unauthorized"
  ELSE IF ~is_delegate /\ ~auth.tok_authority_signer THEN "Unauthorized"
  ELSE IF access_control_member(m, e) # "ok" THEN access_control_member(m, e)
  ELSE IF is_delegate /\ auth.delegate_owner # member[m].books.delegate.owner
       THEN "InvalidMemberDelegateOwner"
  ELSE "ok"

\* state_transition of deposit: the member and the entity it leaves behind
deposit_state_transition(m, e, amount, is_mega, is_delegate, ctx, now) ==
  LET member1 == stake_intent_did_deposit(member[m], amount, is_mega, is_delegate)
      entity1 == add_stake_intent(entity[e], amount, is_mega)
      entity2 == WrapEntity(entity1)
  IN  [member |-> WrapMember(member1),
       entity |-> transition_activation_if_needed(entity2, ctx, now),
       evaluated |-> entity2,
       panics |-> \/ MemberOverflows(member1)
                  \/ EntityOverflows(entity1)
                  \/ transition_overflows(entity2, ctx)]

DepositResult(m, e, amount, is_mega, is_delegate, auth, now) ==
  IF StakeContextFails THEN "PoolError"
  ELSE IF deposit_access_control(m, e, is_delegate, auth) # "ok"
       THEN deposit_access_control(m, e, is_delegate, auth)
  ELSE IF overflow_checks
          /\ deposit_state_transition(m, e, amount, is_mega, is_delegate,
                                      StakeContextNew, now).panics
       THEN "Panic"
  ELSE "ok"

Deposit(m, e, amount, is_mega, is_delegate, auth, now) ==
  LET ctx == StakeContextNew
      st == deposit_state_transition(m, e, amount, is_mega, is_delegate, ctx, now)
  IN  /\ DepositResult(m, e, amount, is_mega, is_delegate, auth, now) = "ok"
      /\ \A f \in MemberFields :
           st.member.books[BookOf(is_delegate)].balances[f] <= MaxBalance
      /\ \A f \in EntityFields : st.entity.balances[f] <= MaxVault
      /\ member' = [member EXCEPT ![m] = st.member]
      /\ entity' = [entity EXCEPT ![e] = st.entity]
      /\ hist' = token_transfer(owed_add(hist, m, amount, is_mega, is_delegate),
                                amount, is_mega)
      /\ last' = [op |-> "deposit",
                  evals |-> <<Evaluation(e, ctx, st.evaluated, st.entity)>>,
                  args |-> <<m, e, amount, is_mega, is_delegate>>,
                  pre |-> Snapshot(m, e, is_delegate)]
      /\ clock' = now
      /\ UNCHANGED <<overflow_checks, pw, pool, mega_pool, rd>>

\* ----------------------------------------------------- stake_intent_withdrawal
\* faulty variant of stake_intent_withdrawal_access_control: the amount is
\* not compared with the stake-intent of the book
stake_intent_withdrawal_no_balance_check(m, e, amount, is_mega, is_delegate, auth) ==
  IF ~auth.beneficiary_signer THEN "Unauthorized"
  ELSE IF is_delegate /\ ~auth.delegate_signer THEN "Unauthorized"
  ELSE IF access_control_member(m, e) # "ok" THEN access_control_member(m, e)
  ELSE IF is_delegate /\ auth.delegate_owner # member[m].books.delegate.owner
       THEN "InvalidMemberDelegateOwner"
  ELSE "ok"

stake_intent_withdrawal_access_control(m, e, amount, is_mega, is_delegate, auth) ==
  IF ~auth.beneficiary_signer THEN "Unauthorized"
  ELSE IF is_delegate /\ ~auth.delegate_signer THEN "Unauthorized"
  ELSE IF access_control_member(m, e) # "ok" THEN access_control_member(m, e)
  ELSE IF is_delegate /\ auth.delegate_owner # member[m].books.delegate.owner
       THEN "InvalidMemberDelegateOwner"
  ELSE IF amount > stake_intent(member[m], is_mega, is_delegate)
       THEN "InsufficientStakeIntentBalance"
  ELSE "ok"

\* faulty variant of stake_intent_withdrawal_state_transition: the member's
\* cost basis is left as it is
stake_intent_withdrawal_keeps_cost_basis(m, e, amount, is_mega, is_delegate, ctx, now) ==
  LET member1 == member_sub_stake_intent(member[m], amount, is_mega, is_delegate)
      entity1 == sub_stake_intent(entity[e], amount, is_mega)
      entity2 == WrapEntity(entity1)
  IN  [member |-> WrapMember(member1),
       entity |-> transition_activation_if_needed(entity2, ctx, now),
       evaluated |-> entity2,
       panics |-> \/ MemberOverflows(member1)
                  \/ EntityOverflows(entity1)
                  \/ transition_overflows(entity2, ctx)]

\* The handler debits the member through Member::sub_stake_intent, a name the
\* Member of the sources does not have; its withdrawal operation is
\* stake_intent_did_withdraw.
stake_intent_withdrawal_state_transition(m, e, amount, is_mega, is_delegate, ctx, now) ==
  LET member1 == stake_intent_did_withdraw(member[m], amount, is_mega, is_delegate)
      entity1 == sub_stake_intent(entity[e], amount, is_mega)
      entity2 == WrapEntity(entity1)
  IN  [member |-> WrapMember(member1),
       entity |-> transition_activation_if_needed(entity2, ctx, now),
       evaluated |-> entity2,
       panics |-> \/ MemberOverflows(member1)
                  \/ EntityOverflows(entity1)
                  \/ transition_overflows(entity2, ctx)]

StakeIntentWithdrawalResult(m, e, amount, is_mega, is_delegate, auth, now) ==
  IF StakeContextFails THEN "PoolError"
  ELSE IF stake_intent_withdrawal_access_control(m, e, amount, is_mega, is_delegate, auth) # "ok"
       THEN stake_intent_withdrawal_access_control(m, e, amount, is_mega, is_delegate, auth)
  ELSE IF amount > (IF is_mega THEN hist.vault.mega_asset ELSE hist.vault.asset)
       THEN "TokenInsufficientFunds"
  ELSE IF overflow_checks
          /\ stake_intent_withdrawal_state_transition(m, e, amount, is_mega, is_delegate,
                                                      StakeContextNew, now).panics
       THEN "Panic"
  ELSE "ok"

StakeIntentWithdrawal(m, e, amount, is_mega, is_delegate, auth, now) ==
  LET ctx == StakeContextNew
      st == stake_intent_withdrawal_state_transition(m, e, amount, is_mega, is_delegate, ctx, now)
  IN  /\ StakeIntentWithdrawalResult(m, e, amount, is_mega, is_delegate, auth, now) = "ok"
      /\ member' = [member EXCEPT ![m] = st.member]
      /\ entity' = [entity EXCEPT ![e] = st.entity]
      /\ hist' = token_transfer(owed_add(hist, m, 0 - amount, is_mega, is_delegate),
                                0 - amount, is_mega)
      /\ last' = [op |-> "stake_intent_withdrawal",
                  evals |-> <<Evaluation(e, ctx, st.evaluated, st.entity)>>,
                  args |-> <<m, e, amount, is_mega, is_delegate>>,
                  undoes |-> /\ last.op = "deposit"
                             /\ last.args = <<m, e, amount, is_mega, is_delegate>>]
      /\ clock' = now
      /\ UNCHANGED <<overflow_checks, pw, pool, mega_pool, rd>>

\* ---------------------------------------------------------------------- stake
\* with_entity: the entity the closure receives
with_entity(e, ctx, now) == transition_activation_if_needed(entity[e], ctx, now)
with_entity_panics(e, ctx) == transition_overflows(entity[e], ctx)

\* faulty variant of stake_access_control: the activation gate is left out
stake_access_control_no_gate(m, e, ent, spt_amount, is_mega, is_delegate, auth, ctx) ==
  IF ~auth.beneficiary_signer THEN "Unauthorized"
  ELSE IF is_delegate /\ ~auth.delegate_signer THEN "Unauthorized"
  ELSE IF ~is_delegate /\ ~auth.tok_authority_signer THEN "Unauthorized"
  ELSE IF access_control_member(m, e) # "ok" THEN access_control_member(m, e)
  ELSE IF is_delegate /\ auth.delegate_owner # member[m].books.delegate.owner
       THEN "InvalidMemberDelegateOwner"
  ELSE IF member[m].generation # ent.generation /\ ~stake_is_empty(member[m])
       THEN "StaleStakeNeedsWithdrawal"
  ELSE IF srm_equivalent(ctx, spt_amount, is_mega)
            > stake_intent(member[m], is_mega, is_delegate)
       THEN "InsufficientStakeIntentBalance"
  ELSE "ok"

\* access_control of the stake handler, run on the entity as with_entity left
\* it; "Panic" is an overflow of the gate's arithmetic in a checking build
stake_access_control(m, e, ent, spt_amount, is_mega, is_delegate, auth, ctx) ==
  IF ~auth.beneficiary_signer THEN "Unauthorized"
  ELSE IF is_delegate /\ ~auth.delegate_signer THEN "Unauthorized"
  ELSE IF ~is_delegate /\ ~auth.tok_authority_signer THEN "Unauthorized"
  ELSE IF access_control_member(m, e) # "ok" THEN access_control_member(m, e)
  ELSE IF is_delegate /\ auth.delegate_owner # member[m].books.delegate.owner
       THEN "InvalidMemberDelegateOwner"
  ELSE IF member[m].generation # ent.generation /\ ~stake_is_empty(member[m])
       THEN "StaleStakeNeedsWithdrawal"
  ELSE IF overflow_checks
          /\ (\/ srm_equivalent_overflows(ctx, spt_amount, is_mega)
              \/ activation_amount_overflows(ent, ctx)
              \/ srm_equivalent(ctx, spt_amount, is_mega)
                   + activation_amount(ent, ctx) >= U64)
       THEN "Panic"
  ELSE IF Add(srm_equivalent(ctx, spt_amount, is_mega), activation_amount(ent, ctx))
            < reward_activation_threshold
       THEN "EntityNotActivated"
  ELSE IF srm_equivalent(ctx, spt_amount, is_mega)
            > stake_intent(member[m], is_mega, is_delegate)
       THEN "InsufficientStakeIntentBalance"
  ELSE "ok"

\* The handler's member.spt_add is Member::spt_did_create of the sources.
stake_state_transition(m, ent, spt_amount, is_mega, is_delegate, ctx, now) ==
  LET stake_intent_amount == basket_primary_asset(ctx, spt_amount, is_mega)
      member1 == spt_did_create(
                   member_sub_stake_intent(member[m], stake_intent_amount,
                                           is_mega, is_delegate),
                   ctx, spt_amount, is_mega, is_delegate)
      entity1 == spt_add(sub_stake_intent(ent, stake_intent_amount, is_mega),
                         spt_amount, is_mega)
      entity2 == WrapEntity(entity1)
  IN  [member |-> WrapMember(member1),
       entity |-> transition_activation_if_needed(entity2, ctx, now),
       evaluated |-> entity2,
       panics |-> \/ MemberOverflows(member1)
                  \/ EntityOverflows(entity1)
                  \/ transition_overflows(entity2, ctx)]

\* faulty variant of StakeResult: the closure goes on to state_transition
\* whatever access_control returned
StakeResultSkipsAccessControl(m, e, spt_amount, is_mega, is_delegate, auth, now) ==
  LET ctx == StakeContextNew
      ent == with_entity(e, ctx, now)
  IN  IF StakeContextFails THEN "PoolError"
      ELSE IF overflow_checks /\ with_entity_panics(e, ctx) THEN "Panic"
      ELSE IF creation_fails(IF is_mega THEN mega_pool ELSE pool, spt_amount)
           THEN "PoolError"
      ELSE IF overflow_checks
              /\ stake_state_transition(m, ent, spt_amount, is_mega, is_delegate, ctx, now).panics
           THEN "Panic"
      ELSE "ok"

StakeResult(m, e, spt_amount, is_mega, is_delegate, auth, now) ==
  LET ctx == StakeContextNew
      ent == with_entity(e, ctx, now)
      err == stake_access_control(m, e, ent, spt_amount, is_mega, is_delegate, auth, ctx)
  IN  IF StakeContextFails THEN "PoolError"
      ELSE IF overflow_checks /\ with_entity_panics(e, ctx) THEN "Panic"
      ELSE IF err # "ok" THEN err
      ELSE IF creation_fails(IF is_mega THEN mega_pool ELSE pool, spt_amount)
           THEN "PoolError"
      ELSE IF overflow_checks
              /\ stake_state_transition(m, ent, spt_amount, is_mega, is_delegate, ctx, now).panics
           THEN "Panic"
      ELSE "ok"

Stake(m, e, spt_amount, is_mega, is_delegate, auth, now) ==
  LET ctx == StakeContextNew
      ent == with_entity(e, ctx, now)
      st == stake_state_transition(m, ent, spt_amount, is_mega, is_delegate, ctx, now)
  IN  /\ StakeResult(m, e, spt_amount, is_mega, is_delegate, auth, now) = "ok"
      /\ (IF is_mega THEN mega_pool ELSE pool).supply + spt_amount <= MaxVault
      /\ IF is_mega
         THEN mega_pool' = creation(mega_pool, spt_amount) /\ pool' = pool
         ELSE pool' = creation(pool, spt_amount) /\ mega_pool' = mega_pool
      /\ member' = [member EXCEPT ![m] = st.member]
      /\ entity' = [entity EXCEPT ![e] = st.entity]
      /\ last' = [op |-> "stake",
                  evals |-> <<Evaluation(e, ctx, entity[e], ent),
                              Evaluation(e, ctx, st.evaluated, st.entity)>>,
                  args |-> <<m, e, spt_amount, is_mega, is_delegate>>]
      /\ clock' = now
      /\ UNCHANGED <<overflow_checks, pw, hist, rd>>

\* ------------------------------------------------------ start_stake_withdrawal
start_stake_withdrawal_access_control(w, m, e, auth) ==
  IF ~auth.beneficiary_signer THEN "Unauthorized"
  ELSE IF access_control_member(m, e) # "ok" THEN access_control_member(m, e)
  ELSE IF pw[w].initialized THEN "AlreadyInitialized"
  ELSE "ok"

\* pool_return_forfeited_assets: the amounts marked to the member's last stake
\* context; it asserts two assets and subtracts marked from current
pool_return_forfeited_assets_fails(mem, current_asset_amounts, spt_amount, mega) ==
  \/ basket_quantities_fails(mem.last_active_stake_ctx, spt_amount, mega)
  \/ Len(current_asset_amounts) # 2
  \/ \E i \in 1..Len(current_asset_amounts) :
       current_asset_amounts[i]
         < basket_quantities(mem.last_active_stake_ctx, spt_amount, mega)[i]

pool_return_forfeited_assets(mem, spt_amount, mega) ==
  basket_quantities(mem.last_active_stake_ctx, spt_amount, mega)

\* faulty variant of start_stake_withdrawal_state_transition: the receipt's
\* end_ts leaves the deactivation premium out
start_stake_withdrawal_short_timelock(w, m, e, spt_amount, mega, delegate, ctx, now) ==
  LET asset_amounts ==
        IF entity[e].state = Inactive
        THEN pool_return_forfeited_assets(member[m], spt_amount, mega)
        ELSE basket_quantities(ctx, spt_amount, mega)
      redem == spt_did_redeem(member[m], spt_amount, asset_amounts, mega, delegate)
      entity1 == transfer_pending_withdrawal(entity[e], spt_amount, asset_amounts, mega)
      entity2 == WrapEntity(entity1)
  IN  [member |-> WrapMember(redem.member),
       entity |-> transition_activation_if_needed(entity2, ctx, now),
       main |-> redem.main,
       delegate |-> redem.delegate,
       pending_withdrawal |->
         [pw[w] EXCEPT !.initialized = TRUE, !.member = m, !.start_ts = now,
                       !.end_ts = now + withdrawal_timelock,
                       !.spt_amount = spt_amount, !.delegate = delegate,
                       !.payment = redem.main, !.delegate_payment = redem.delegate],
       evaluated |-> entity2,
       panics |-> \/ MemberOverflows(redem.member)
                  \/ EntityOverflows(entity1)
                  \/ transition_overflows(entity2, ctx)]

\* The handler's entity.spt_did_redeem is Entity::transfer_pending_withdrawal
\* of the sources.
start_stake_withdrawal_state_transition(w, m, e, spt_amount, mega, delegate, ctx, now) ==
  LET asset_amounts ==
        IF entity[e].state = Inactive
        THEN pool_return_forfeited_assets(member[m], spt_amount, mega)
        ELSE basket_quantities(ctx, spt_amount, mega)
      redem == spt_did_redeem(member[m], spt_amount, asset_amounts, mega, delegate)
      entity1 == transfer_pending_withdrawal(entity[e], spt_amount, asset_amounts, mega)
      entity2 == WrapEntity(entity1)
  IN  [member |-> WrapMember(redem.member),
       entity |-> transition_activation_if_needed(entity2, ctx, now),
       main |-> redem.main,
       delegate |-> redem.delegate,
       pending_withdrawal |->
         [pw[w] EXCEPT !.initialized = TRUE, !.member = m, !.start_ts = now,
                       !.end_ts = now + deactivation_timelock,
                       !.spt_amount = spt_amount, !.delegate = delegate,
                       !.payment = redem.main, !.delegate_payment = redem.delegate],
       evaluated |-> entity2,
       panics |-> \/ MemberOverflows(redem.member)
                  \/ EntityOverflows(entity1)
                  \/ transition_overflows(entity2, ctx)]

StartStakeWithdrawalResult(w, m, e, spt_amount, mega, delegate, auth, now) ==
  LET ctx == StakeContextNew
      err == start_stake_withdrawal_access_control(w, m, e, auth)
  IN  IF StakeContextFails THEN "PoolError"
      ELSE IF err # "ok" THEN err
      ELSE IF redemption_fails(IF mega THEN mega_pool ELSE pool, spt_amount)
           THEN "PoolError"
      ELSE IF basket_quantities_fails(ctx, spt_amount, mega) THEN "CheckedFailure"
      ELSE IF /\ entity[e].state = Inactive
              /\ pool_return_forfeited_assets_fails(
                   member[m], basket_quantities(ctx, spt_amount, mega), spt_amount, mega)
           THEN "Panic"
      ELSE IF overflow_checks
              /\ start_stake_withdrawal_state_transition(
                   w, m, e, spt_amount, mega, delegate, ctx, now).panics
           THEN "Panic"
      ELSE "ok"

\* a redemption that succeeds is one on the single-asset pool
StartStakeWithdrawal(w, m, e, spt_amount, mega, delegate, auth, now) ==
  LET ctx == StakeContextNew
      st == start_stake_withdrawal_state_transition(
              w, m, e, spt_amount, mega, delegate, ctx, now)
  IN  /\ StartStakeWithdrawalResult(w, m, e, spt_amount, mega, delegate, auth, now) = "ok"
      /\ pool' = redemption(pool, spt_amount)
      /\ member' = [member EXCEPT ![m] = st.member]
      /\ entity' = [entity EXCEPT ![e] = st.entity]
      /\ pw' = [pw EXCEPT ![w] = st.pending_withdrawal]
      /\ hist' = owed_paid(hist, m, st.delegate)
      /\ last' = [op |-> "start_stake_withdrawal",
                  evals |-> <<Evaluation(e, ctx, st.evaluated, st.entity)>>,
                  args |-> <<w, m, e, spt_amount, mega, delegate>>]
      /\ clock' = now
      /\ UNCHANGED <<overflow_checks, mega_pool, rd>>

\* -------------------------------------------------------- end_stake_withdrawal
\* access_control::pending_withdrawal is not among the sources: the receipt
\* is initialized and not burned
access_control_pending_withdrawal(w) ==
  IF ~pw[w].initialized THEN "NotInitialized"
  ELSE IF pw[w].burned THEN "AlreadyBurned"
  ELSE "ok"

end_stake_withdrawal_access_control(w, m, e, auth, now) ==
  IF ~auth.beneficiary_signer THEN "Unauthorized"
  ELSE IF access_control_member(m, e) # "ok" THEN access_control_member(m, e)
  ELSE IF access_control_pending_withdrawal(w) # "ok"
       THEN access_control_pending_withdrawal(w)
  ELSE IF now < pw[w].end_ts THEN "WithdrawalTimelockNotPassed"
  ELSE "ok"

\* faulty variant of end_stake_withdrawal_state_transition: the receipt is
\* not marked
end_stake_withdrawal_keeps_receipt(w, delegate_accounts) ==
  [fails |-> /\ ~delegate_accounts
             /\ \/ pw[w].delegate_payment.asset > 0
                \/ pw[w].delegate_payment.mega_asset > 0,
   pending_withdrawal |-> pw[w]]

\* faulty variant of end_stake_withdrawal_state_transition: a delegate leg
\* without a delegate account is skipped
end_stake_withdrawal_skips_delegate(w, delegate_accounts) ==
  [fails |-> FALSE,
   pending_withdrawal |-> [pw[w] EXCEPT !.burned = TRUE]]

\* state_transition of end_stake_withdrawal: the legs it transfers and the receipt
end_stake_withdrawal_state_transition(w, delegate_accounts) ==
  [fails |-> /\ ~delegate_accounts
             /\ \/ pw[w].delegate_payment.asset > 0
                \/ pw[w].delegate_payment.mega_asset > 0,
   pending_withdrawal |-> [pw[w] EXCEPT !.burned = TRUE]]

\* faulty variant of EndStakeWithdrawalResult: the error state_transition
\* returns is dropped
EndStakeWithdrawalResultDropsError(w, m, e, delegate_accounts, auth, now) ==
  IF end_stake_withdrawal_access_control(w, m, e, auth, now) # "ok"
  THEN end_stake_withdrawal_access_control(w, m, e, auth, now)
  ELSE "ok"

EndStakeWithdrawalResult(w, m, e, delegate_accounts, auth, now) ==
  IF end_stake_withdrawal_access_control(w, m, e, auth, now) # "ok"
  THEN end_stake_withdrawal_access_control(w, m, e, auth, now)
  ELSE IF end_stake_withdrawal_state_transition(w, delegate_accounts).fails
       THEN "DelegateAccountsNotProvided"
  ELSE "ok"

EndStakeWithdrawal(w, m, e, delegate_accounts, auth, now) ==
  /\ EndStakeWithdrawalResult(w, m, e, delegate_accounts, auth, now) = "ok"
  /\ pw' = [pw EXCEPT ![w] =
              end_stake_withdrawal_state_transition(w, delegate_accounts).pending_withdrawal]
  /\ hist' = [hist EXCEPT !.payouts[w] = @ + 1]
  /\ last' = [op |-> "end_stake_withdrawal", evals |-> <<>>,
              args |-> <<w, m, e, delegate_accounts>>]
  /\ clock' = now
  /\ UNCHANGED <<overflow_checks, entity, member, pool, mega_pool, rd>>

\* the entry point of the program answers EndStakeWithdrawal without calling
\* the handler
entry_end_stake_withdrawal == "NotReadySeeNextMajorVersion"

\* -------------------------------------------------------------- switch_entity
\* Entity::remove and Entity::add; the Member of the sources keeps no pending
\* withdrawal balances, so pending_sub and pending_add move nothing
remove(e, mem) ==
  LET mn == mem.books.main.balances
      d == mem.books.delegate.balances
  IN  spt_sub(spt_sub(sub_stake_intent(sub_stake_intent(
        spt_sub(spt_sub(sub_stake_intent(sub_stake_intent(e,
          mn.stake_intent, FALSE), mn.mega_stake_intent, TRUE),
          mn.spt_amount, FALSE), mn.spt_mega_amount, TRUE),
          d.stake_intent, FALSE), d.mega_stake_intent, TRUE),
          d.spt_amount, FALSE), d.spt_mega_amount, TRUE)

add(e, mem) ==
  LET mn == mem.books.main.balances
      d == mem.books.delegate.balances
  IN  spt_add(spt_add(add_stake_intent(add_stake_intent(
        spt_add(spt_add(add_stake_intent(add_stake_intent(e,
          mn.stake_intent, FALSE), mn.mega_stake_intent, TRUE),
          mn.spt_amount, FALSE), mn.spt_mega_amount, TRUE),
          d.stake_intent, FALSE), d.mega_stake_intent, TRUE),
          d.spt_amount, FALSE), d.spt_mega_amount, TRUE)

EntityTotal(e) ==
  e.balances.spt_amount + e.balances.spt_mega_amount
    + e.balances.pending_withdrawals + e.balances.mega_pending_withdrawals
    + e.balances.stake_intent + e.balances.mega_stake_intent

switch_entity_access_control(m, curr, auth) ==
  IF ~auth.beneficiary_signer THEN "Unauthorized"
  ELSE access_control_member(m, curr)

\* state_transition of switch_entity; the member account is not written
switch_entity_state_transition(m, curr, new, ctx, now) ==
  LET curr1 == remove(entity[curr], member[m])
      curr2 == WrapEntity(curr1)
      new1 == add(entity[new], member[m])
      new2 == WrapEntity(new1)
  IN  [curr_entity |-> transition_activation_if_needed(curr2, ctx, now),
       new_entity |-> transition_activation_if_needed(new2, ctx, now),
       curr_evaluated |-> curr2,
       new_evaluated |-> new2,
       panics |-> \/ EntityOverflows(curr1)
                  \/ transition_overflows(curr2, ctx)
                  \/ EntityOverflows(new1)
                  \/ transition_overflows(new2, ctx)]

\* the two entity accounts are borrowed mutably one inside the other
SwitchEntityResult(m, curr, new, auth, now) ==
  IF StakeContextFails THEN "PoolError"
  ELSE IF switch_entity_access_control(m, curr, auth) # "ok"
       THEN switch_entity_access_control(m, curr, auth)
  ELSE IF curr = new THEN "AccountBorrowFailed"
  ELSE IF overflow_checks
          /\ switch_entity_state_transition(m, curr, new, StakeContextNew, now).panics
       THEN "Panic"
  ELSE "ok"

SwitchEntity(m, curr, new, auth, now) ==
  LET st == switch_entity_state_transition(m, curr, new, StakeContextNew, now)
  IN  /\ SwitchEntityResult(m, curr, new, auth, now) = "ok"
      /\ EntityTotal(st.new_entity) <= MaxBalance
      /\ entity' = [entity EXCEPT ![curr] = st.curr_entity, ![new] = st.new_entity]
      /\ last' = [op |-> "switch_entity",
                  evals |-> <<Evaluation(curr, StakeContextNew,
                                         st.curr_evaluated, st.curr_entity),
                              Evaluation(new, StakeContextNew,
                                         st.new_evaluated, st.new_entity)>>,
                  args |-> <<m, curr, new>>]
      /\ clock' = now
      /\ UNCHANGED <<overflow_checks, member, pw, pool, mega_pool, hist, rd>>

\* -------------------------------------------------------------- update_member
\* The handler that changes the delegate is not among the sources: the
\* beneficiary signs and Member::set_delegate is applied.
UpdateMemberResult(m, auth) ==
  IF ~auth.beneficiary_signer THEN "Unauthorized"
  ELSE IF ~member[m].initialized THEN "NotInitialized"
  ELSE IF set_delegate_panics(member[m]) THEN "Panic"
  ELSE "ok"

UpdateMember(m, delegate, auth) ==
  /\ UpdateMemberResult(m, auth) = "ok"
  /\ delegate # member[m].books.delegate.owner
  /\ member' = [member EXCEPT ![m] = set_delegate(member[m], delegate)]
  /\ last' = [NoRecord EXCEPT !.op = "update_member"]
  /\ UNCHANGED <<overflow_checks, clock, entity, pw, pool, mega_pool, hist, rd>>

\* ---------------------------------------------------------------- the clock
\* Every instruction is handed a Clock reading, never earlier than the last.
\* The reading is only ever compared with deactivation_start_ts + timelock and
\* with end_ts, so time is let pass only while one of the two is running.
TimelockRunning ==
  \/ \E e \in Entities : entity[e].state.tag = "PendingDeactivation"
  \/ \E w \in Receipts : pw[w].initialized /\ ~pw[w].burned

Readings == IF TimelockRunning THEN clock..MaxClock ELSE {clock}

\* ----------------------------------------------------------------------- Next
\* The accounts a caller passes: any other entity account or delegate key is
\* turned down by access control (the ...Result operators say how), so the
\* steps are those with the member's own entity and delegate key.
\* the books a call addresses: main SRM, main MSRM, delegate SRM
Kinds ==
  {[is_mega |-> FALSE, is_delegate |-> FALSE],
   [is_mega |-> TRUE, is_delegate |-> FALSE],
   [is_mega |-> FALSE, is_delegate |-> TRUE]}

EntityOf(m) == {e \in Entities : e = member[m].entity}
CallersOf(m) == {AuthOk(d) : d \in {member[m].books.delegate.owner} \cap Delegates}

\* entities and delegate keys are interchangeable: members start in the first
DoCreateMember == \E m \in Members : CreateMember(m, "e1", "d1")
DoDeposit ==
  \E m \in Members : \E e \in EntityOf(m), auth \in CallersOf(m), amount \in Amounts,
     k \in Kinds, now \in Readings :
       Deposit(m, e, amount, k.is_mega, k.is_delegate, auth, now)
DoStakeIntentWithdrawal ==
  \E m \in Members : \E e \in EntityOf(m), auth \in CallersOf(m), amount \in Amounts,
     k \in Kinds, now \in Readings :
       StakeIntentWithdrawal(m, e, amount, k.is_mega, k.is_delegate, auth, now)
DoStake ==
  \E m \in Members : \E e \in EntityOf(m), auth \in CallersOf(m), spt_amount \in Amounts,
     k \in Kinds, now \in Readings :
       Stake(m, e, spt_amount, k.is_mega, k.is_delegate, auth, now)
DoStartStakeWithdrawal ==
  \E w \in Receipts, m \in Members :
    \E e \in EntityOf(m), auth \in CallersOf(m), spt_amount \in Amounts,
       k \in Kinds, now \in Readings :
         StartStakeWithdrawal(w, m, e, spt_amount, k.is_mega, k.is_delegate, auth, now)
DoEndStakeWithdrawal ==
  \E w \in Receipts, m \in Members :
    \E e \in EntityOf(m), auth \in CallersOf(m),
       delegate_accounts \in BOOLEAN, now \in Readings :
         EndStakeWithdrawal(w, m, e, delegate_accounts, auth, now)
DoSwitchEntity ==
  \E m \in Members : \E curr \in EntityOf(m), auth \in CallersOf(m),
     new \in Entities, now \in Readings :
       SwitchEntity(m, curr, new, auth, now)
\* a member is created with the first delegate key and is moved to the second
DoUpdateMember ==
  \E m \in Members : \E auth \in CallersOf(m) : UpdateMember(m, "d2", auth)

Next ==
  \/ DoCreateMember
  \/ DoDeposit
  \/ DoStakeIntentWithdrawal
  \/ DoStake
  \/ DoStartStakeWithdrawal
  \/ DoEndStakeWithdrawal
  \/ DoSwitchEntity
  \/ DoUpdateMember

Spec == Init /\ [][Next]_vars

\* ------------------------------------------ Member::spt_did_redeem, call by call
\* One call of spt_did_redeem on a Member whose books hold any cost basis; rd
\* keeps the arguments, the cost bases of the delegate book before the call
\* and the two legs that came back.
RedeemBalances(spt, cost_basis, mega_cost_basis) ==
  [MemberBalances0 EXCEPT !.spt_amount = spt, !.spt_mega_amount = spt,
                          !.cost_basis = cost_basis,
                          !.mega_cost_basis = mega_cost_basis]

InitRedeem ==
  /\ overflow_checks \in BOOLEAN
  /\ clock = 0
  /\ entity = [e \in Entities |-> Entity0]
  /\ \E spt \in 0..MaxAmount, c \in 0..MaxCost, mc \in 0..MaxCost,
        dc \in 0..MaxCost, dmc \in 0..MaxCost :
       member = [m \in Members |->
                   [initialized |-> TRUE, entity |-> "e1", generation |-> 0,
                    books |->
                      [main |-> [owner |-> "beneficiary",
                                 balances |-> RedeemBalances(spt, c, mc)],
                       delegate |-> [owner |-> "d1",
                                     balances |-> RedeemBalances(spt, dc, dmc)]],
                    last_active_stake_ctx |-> DefaultCtx]]
  /\ pw = [w \in Receipts |-> PendingWithdrawal0]
  /\ pool = Pool0
  /\ mega_pool = MegaPool0
  /\ hist = Hist0
  /\ last = NoRecord
  /\ rd = RdIdle

\* the assert on the length of purchase_price
spt_did_redeem_asserts(purchase_price, mega) ==
  (mega /\ Len(purchase_price) = 2) \/ (~mega /\ Len(purchase_price) = 1)

PurchasePrices ==
  {<<p>> : p \in 0..MaxPrice} \cup {<<p, q>> : p \in 0..MaxPrice, q \in 0..MaxPrice}

SptDidRedeem(m, spt_amount, purchase_price, mega, delegate) ==
  LET r == spt_did_redeem(member[m], spt_amount, purchase_price, mega, delegate)
  IN  /\ rd.phase = "idle"
      /\ spt_did_redeem_asserts(purchase_price, mega)
      /\ ~(overflow_checks /\ MemberOverflows(r.member))
      /\ member' = [member EXCEPT ![m] = WrapMember(r.member)]
      /\ rd' = [phase |-> "returned", spt_amount |-> spt_amount,
                purchase_price |-> purchase_price, mega |-> mega,
                delegate |-> delegate,
                cost_basis |-> member[m].books.delegate.balances.cost_basis,
                mega_cost_basis |-> member[m].books.delegate.balances.mega_cost_basis,
                main_leg |-> r.main, delegate_leg |-> r.delegate]
      /\ UNCHANGED <<overflow_checks, clock, entity, pw, pool, mega_pool, hist, last>>

DoSptDidRedeem ==
  \E m \in Members, spt_amount \in Amounts, purchase_price \in PurchasePrices,
     mega \in BOOLEAN, delegate \in BOOLEAN :
       SptDidRedeem(m, spt_amount, purchase_price, mega, delegate)

NextRedeem == DoSptDidRedeem

SpecRedeem == InitRedeem /\ [][NextRedeem]_vars

\* ---------------------------------------------- Member::set_delegate, call by call
\* One call of set_delegate on a Member whose delegate book holds any
\* stake-intent and pool tokens, bought at one asset a token; rd keeps the
\* delegate book as it was before the call and the key that was passed.
DelegateBalances(si, msi, spt, mspt) ==
  [spt_amount |-> spt, spt_mega_amount |-> mspt,
   stake_intent |-> si, mega_stake_intent |-> msi,
   cost_basis |-> si + spt, mega_cost_basis |-> msi + mspt]

InitSetDelegate ==
  /\ overflow_checks \in BOOLEAN
  /\ clock = 0
  /\ entity = [e \in Entities |-> Entity0]
  /\ \E si \in 0..MaxHeld, msi \in 0..MaxHeld, spt \in 0..MaxHeld, mspt \in 0..MaxHeld :
       member = [m \in Members |->
                   [initialized |-> TRUE, entity |-> "e1", generation |-> 0,
                    books |->
                      [main |-> [owner |-> "beneficiary", balances |-> MemberBalances0],
                       delegate |-> [owner |-> "d1",
                                     balances |-> DelegateBalances(si, msi, spt, mspt)]],
                    last_active_stake_ctx |-> DefaultCtx]]
  /\ pw = [w \in Receipts |-> PendingWithdrawal0]
  /\ pool = Pool0
  /\ mega_pool = MegaPool0
  /\ hist = Hist0
  /\ last = NoRecord
  /\ rd = RdIdle

\* a call whose assert fails panics and leaves the member as it was
SetDelegate(m, delegate) ==
  /\ rd.phase = "idle"
  /\ ~set_delegate_panics(member[m])
  /\ member' = [member EXCEPT ![m] = set_delegate(member[m], delegate)]
  /\ rd' = [phase |-> "set_delegate", book |-> member[m].books.delegate,
            delegate |-> delegate]
  /\ UNCHANGED <<overflow_checks, clock, entity, pw, pool, mega_pool, hist, last>>

DoSetDelegate == \E m \in Members, delegate \in Delegates : SetDelegate(m, delegate)

NextSetDelegate == DoSetDelegate

SpecSetDelegate == InitSetDelegate /\ [][NextSetDelegate]_vars

\* ------------------------------------------------ StakeContext, call by call
\* One call of srm_equivalent, of basket_quantities or of the activation
\* check on a StakeContext whose quantities are small, or large enough for a
\* product to leave the word; rd keeps the arguments and what came back:
\* `result`, read only when the call did not panic (`panics`) and did not
\* return the CheckedFailure error (`fails`).
Quantities == (0..MaxQuantity) \cup {U64 \div MSRM_VALUE + 1, U64 - 1}

InitStakeContext ==
  /\ overflow_checks \in BOOLEAN
  /\ clock = 0
  /\ entity = [e \in Entities |-> Entity0]
  /\ member = [m \in Members |-> Member0]
  /\ pw = [w \in Receipts |-> PendingWithdrawal0]
  /\ pool = Pool0
  /\ mega_pool = MegaPool0
  /\ hist = Hist0
  /\ last = NoRecord
  /\ \E q \in Quantities, a \in Quantities, b \in Quantities,
        spt_count \in Quantities, is_mega \in BOOLEAN :
       rd = [phase |-> "called", ctx |-> [basket |-> <<q>>, mega_basket |-> <<a, b>>],
             spt_count |-> spt_count, is_mega |-> is_mega]

\* the plain * and + of srm_equivalent panic in a build with overflow checks
SrmEquivalent ==
  /\ rd.phase = "called"
  /\ rd' = [rd EXCEPT !.phase = "srm_equivalent"] @@
           [panics |-> /\ overflow_checks
                       /\ srm_equivalent_overflows(rd.ctx, rd.spt_count, rd.is_mega),
            result |-> srm_equivalent(rd.ctx, rd.spt_count, rd.is_mega)]
  /\ UNCHANGED <<overflow_checks, clock, entity, member, pw, pool, mega_pool, hist, last>>

BasketQuantities ==
  /\ rd.phase = "called"
  /\ rd' = [rd EXCEPT !.phase = "basket_quantities"] @@
           [fails |-> basket_quantities_fails(rd.ctx, rd.spt_count, rd.is_mega),
            result |-> IF basket_quantities_fails(rd.ctx, rd.spt_count, rd.is_mega)
                       THEN <<>>
                       ELSE basket_quantities(rd.ctx, rd.spt_count, rd.is_mega)]
  /\ UNCHANGED <<overflow_checks, clock, entity, member, pw, pool, mega_pool, hist, last>>

\* Entity::meets_activation_requirements on an entity with any balances
MeetsActivationRequirements(balances) ==
  LET e == [Entity0 EXCEPT !.balances = balances] IN
  /\ rd.phase = "called"
  /\ rd' = [rd EXCEPT !.phase = "meets_activation_requirements"] @@
           [balances |-> balances,
            panics |-> overflow_checks /\ activation_amount_overflows(e, rd.ctx),
            result |-> meets_activation_requirements(e, rd.ctx)]
  /\ UNCHANGED <<overflow_checks, clock, entity, member, pw, pool, mega_pool, hist, last>>

DoMeetsActivationRequirements ==
  \E spt \in Quantities, mspt \in 0..MaxQuantity, si \in Quantities, msi \in Quantities :
    MeetsActivationRequirements(
      [EntityBalances0 EXCEPT !.spt_amount = spt, !.spt_mega_amount = mspt,
                              !.stake_intent = si, !.mega_stake_intent = msi])

NextStakeContext == SrmEquivalent \/ BasketQuantities \/ DoMeetsActivationRequirements

SpecStakeContext == InitStakeContext /\ [][NextStakeContext]_vars

\* ------------------------------------- the books of a member under a moving price
\* The bookkeeping each instruction does on the Member, with the two pools:
\* a deposit, a stake-intent withdrawal, a stake and a start-withdrawal of the
\* member, the stake of another member into the SRM pool and a reward dropped
\* on its vault.  The member's entity is taken to be Active (other members
\* keep it so): the activation gate passes and a redemption is paid at the
\* current basket.  rd names the last call and keeps `spt`, the SRM pool
\* tokens in the member's pool-token account, which a redemption burns from,
\* and `fell`, whether the basket of one SRM pool token was ever reported
\* lower than before.
MaxPoolVault == 4

InitBook ==
  /\ overflow_checks \in BOOLEAN
  /\ clock = 0
  /\ entity = [e \in Entities |-> Entity0]
  /\ member = [m \in Members |->
                 [initialized |-> TRUE, entity |-> "e1", generation |-> 0,
                  books |-> MemberBooksNew("beneficiary", "d1"),
                  last_active_stake_ctx |-> DefaultCtx]]
  /\ pw = [w \in Receipts |-> PendingWithdrawal0]
  /\ pool = Pool0
  /\ mega_pool = MegaPool0
  /\ hist = Hist0
  /\ last = NoRecord
  /\ rd = [phase |-> "book", op |-> "none", spt |-> 0, fell |-> FALSE]

Called(op, spt, pool1) ==
  rd' = [phase |-> "book", op |-> op, spt |-> spt,
         fell |-> rd.fell \/ get_basket(pool1, 1)[1] < get_basket(pool, 1)[1]]

\* the balances followed: up to MaxCost, or as far below the word (a balance
\* that wrapped)
Followed(mem) ==
  \A b \in BookNames, f \in MemberFields :
    \/ mem.books[b].balances[f] <= MaxCost
    \/ mem.books[b].balances[f] >= U64 - MaxCost

\* what a handler leaves in the Member account, if it does not panic
BookWritten(m, member1, op, spt, pool1) ==
  /\ ~(overflow_checks /\ MemberOverflows(member1))
  /\ Followed(WrapMember(member1))
  /\ member' = [member EXCEPT ![m] = WrapMember(member1)]
  /\ Called(op, spt, pool1)

\* deposit.rs state_transition
BookDeposit(m, amount, mega, delegate) ==
  LET member1 == stake_intent_did_deposit(member[m], amount, mega, delegate) IN
  /\ rd.phase = "book"
  /\ BookWritten(m, member1, "deposit", rd.spt, pool)
  /\ UNCHANGED <<overflow_checks, clock, entity, pw, pool, mega_pool, hist, last>>

\* stake_intent_withdrawal.rs: the balance check of access_control, then
\* state_transition
BookWithdrawal(m, amount, mega, delegate) ==
  /\ rd.phase = "book"
  /\ amount <= stake_intent(member[m], mega, delegate)
  /\ BookWritten(m, stake_intent_did_withdraw(member[m], amount, mega, delegate),
                 "stake_intent_withdrawal", rd.spt, pool)
  /\ UNCHANGED <<overflow_checks, clock, entity, pw, pool, mega_pool, hist, last>>

\* transfer_stake_intent.rs: the balance check of access_control, pool.create,
\* then state_transition
BookStake(m, spt_amount, mega, delegate) ==
  LET ctx == StakeContextNew
      p == IF mega THEN mega_pool ELSE pool
      member1 == spt_did_create(
                   member_sub_stake_intent(
                     member[m], basket_primary_asset(ctx, spt_amount, mega), mega, delegate),
                   ctx, spt_amount, mega, delegate)
  IN  /\ rd.phase = "book"
      /\ ~StakeContextFails
      /\ ~(overflow_checks /\ srm_equivalent_overflows(ctx, spt_amount, mega))
      /\ srm_equivalent(ctx, spt_amount, mega) <= stake_intent(member[m], mega, delegate)
      /\ ~creation_fails(p, spt_amount)
      /\ p.supply + spt_amount <= MaxVault
      /\ BookWritten(m, member1, "stake",
                     IF mega THEN rd.spt ELSE rd.spt + spt_amount,
                     IF mega THEN pool ELSE creation(pool, spt_amount))
      /\ IF mega
         THEN mega_pool' = creation(mega_pool, spt_amount) /\ pool' = pool
         ELSE pool' = creation(pool, spt_amount) /\ mega_pool' = mega_pool
      /\ UNCHANGED <<overflow_checks, clock, entity, pw, hist, last>>

\* start_stake_withdrawal.rs: pool.redeem, which burns from the member's
\* pool-token account, then state_transition on an entity that is not Inactive
BookRedeem(m, spt_amount, mega, delegate) ==
  LET ctx == StakeContextNew
      r == spt_did_redeem(member[m], spt_amount,
                          basket_quantities(ctx, spt_amount, mega), mega, delegate)
  IN  /\ rd.phase = "book"
      /\ ~StakeContextFails
      /\ ~redemption_fails(IF mega THEN mega_pool ELSE pool, spt_amount)
      /\ get_simple_basket(pool, spt_amount)[1] <= rd.spt
      /\ ~basket_quantities_fails(ctx, spt_amount, mega)
      /\ BookWritten(m, r.member, "start_stake_withdrawal",
                     rd.spt - get_simple_basket(pool, spt_amount)[1],
                     redemption(pool, spt_amount))
      /\ pool' = redemption(pool, spt_amount)
      /\ UNCHANGED <<overflow_checks, clock, entity, pw, mega_pool, hist, last>>

\* the stake of another member: pool tokens are created, this member's books
\* are left alone
OtherStake(spt_amount) ==
  /\ rd.phase = "book"
  /\ ~creation_fails(pool, spt_amount)
  /\ pool.supply + spt_amount <= MaxVault
  /\ pool' = creation(pool, spt_amount)
  /\ Called("other_stake", rd.spt, creation(pool, spt_amount))
  /\ UNCHANGED <<overflow_checks, clock, entity, member, pw, mega_pool, hist, last>>

\* a reward: tokens sent to the vault of the SRM pool, no pool token created
Reward(amount) ==
  /\ rd.phase = "book"
  /\ pool.supply > 0
  /\ pool.vault[1] + amount <= MaxPoolVault
  /\ pool' = [pool EXCEPT !.vault[1] = @ + amount]
  /\ Called("reward", rd.spt, [pool EXCEPT !.vault[1] = @ + amount])
  /\ UNCHANGED <<overflow_checks, clock, entity, member, pw, mega_pool, hist, last>>

DoBookDeposit ==
  \E m \in Members, amount \in Amounts, k \in Kinds :
    BookDeposit(m, amount, k.is_mega, k.is_delegate)
DoBookWithdrawal ==
  \E m \in Members, amount \in Amounts, k \in Kinds :
    BookWithdrawal(m, amount, k.is_mega, k.is_delegate)
DoBookStake ==
  \E m \in Members, spt_amount \in Amounts, k \in Kinds :
    BookStake(m, spt_amount, k.is_mega, k.is_delegate)
DoBookRedeem ==
  \E m \in Members, spt_amount \in Amounts, k \in Kinds :
    BookRedeem(m, spt_amount, k.is_mega, k.is_delegate)
DoOtherStake == \E spt_amount \in Amounts : OtherStake(spt_amount)
DoReward == \E amount \in Amounts : Reward(amount)

NextBook ==
  \/ DoBookDeposit
  \/ DoBookWithdrawal
  \/ DoBookStake
  \/ DoBookRedeem
  \/ DoOtherStake
  \/ DoReward

SpecBook == InitBook /\ [][NextBook]_vars

\* ------------------------------------------------- the staking pools alone
\* SpecPool: the two staking pools under pool-token creations, redemptions and
\* rewards sent to their vaults.  rd keeps the pool tokens in the pool-token
\* accounts of two holders (`held` of the SRM pool, `mega_held` of the MSRM
\* pool) and the last call: the addressed pool as it was before the call, the
\* pool tokens asked for, the basket a creation charged next to the basket
\* get_basket reports in the same pool state, the pool tokens a redemption
\* burned and the quantity it paid out.
MaxPoolSupply == 3
Holders == {"user", "other"}
PoolAmounts == 1..MaxPoolSupply

InitPool ==
  /\ overflow_checks \in BOOLEAN
  /\ clock = 0
  /\ entity = [e \in Entities |-> Entity0]
  /\ member = [m \in Members |-> Member0]
  /\ pw = [w \in Receipts |-> PendingWithdrawal0]
  /\ pool = Pool0
  /\ mega_pool = MegaPool0
  /\ hist = Hist0
  /\ last = NoRecord
  /\ rd = [phase |-> "pool", op |-> "none", mega |-> FALSE, who |-> "user",
           spt |-> 0, before |-> Pool0, charged |-> <<>>, reported |-> <<>>,
           burned |-> 0, paid |-> 0,
           held |-> [h \in Holders |-> 0], mega_held |-> [h \in Holders |-> 0]]

PoolOf(mega) == IF mega THEN mega_pool ELSE pool

\* the creation handler: the basket is charged to the caller, spt_amount pool
\* tokens are minted to the caller's pool-token account
PoolCreation(mega, who, spt_amount) ==
  LET p == PoolOf(mega) IN
  /\ rd.phase = "pool"
  /\ ~creation_fails(p, spt_amount)
  /\ p.supply + spt_amount <= MaxPoolSupply
  /\ \A i \in 1..Len(p.vault) : creation(p, spt_amount).vault[i] <= MaxPoolVault
  /\ IF mega
     THEN mega_pool' = creation(p, spt_amount) /\ UNCHANGED pool
     ELSE pool' = creation(p, spt_amount) /\ UNCHANGED mega_pool
  /\ rd' = [rd EXCEPT !.op = "creation", !.mega = mega, !.who = who,
                      !.spt = spt_amount, !.before = p,
                      !.charged = creation_basket(p, spt_amount),
                      !.reported = get_basket(p, spt_amount),
                      !.burned = 0, !.paid = 0,
                      !.held = IF mega THEN @ ELSE [@ EXCEPT ![who] = @ + spt_amount],
                      !.mega_held = IF mega THEN [@ EXCEPT ![who] = @ + spt_amount] ELSE @]
  /\ UNCHANGED <<overflow_checks, clock, entity, member, pw, hist, last>>

\* the redemption handler on the SRM pool: the token program refuses a burn of
\* more than the caller's pool-token account holds
PoolRedemption(who, spt_amount) ==
  /\ rd.phase = "pool"
  /\ ~redemption_fails(pool, spt_amount)
  /\ get_simple_basket(pool, spt_amount)[1] <= rd.held[who]
  /\ pool' = redemption(pool, spt_amount)
  /\ rd' = [rd EXCEPT !.op = "redemption", !.mega = FALSE, !.who = who,
                      !.spt = spt_amount, !.before = pool,
                      !.charged = <<>>, !.reported = <<>>,
                      !.burned = pool.supply - redemption(pool, spt_amount).supply,
                      !.paid = pool.vault[1] - redemption(pool, spt_amount).vault[1],
                      !.held = [@ EXCEPT ![who] = @ - (pool.supply - redemption(pool, spt_amount).supply)]]
  /\ UNCHANGED <<overflow_checks, clock, entity, member, pw, mega_pool, hist, last>>

\* a reward: `amount` of asset i sent to a pool's vault, no pool token created
PoolReward(mega, i, amount) ==
  LET p == PoolOf(mega) IN
  /\ rd.phase = "pool"
  /\ i \in 1..Len(p.vault)
  /\ p.vault[i] + amount <= MaxPoolVault
  /\ IF mega
     THEN mega_pool' = [p EXCEPT !.vault[i] = @ + amount] /\ UNCHANGED pool
     ELSE pool' = [p EXCEPT !.vault[i] = @ + amount] /\ UNCHANGED mega_pool
  /\ rd' = [rd EXCEPT !.op = "reward", !.mega = mega, !.spt = 0, !.before = p,
                      !.charged = <<>>, !.reported = <<>>, !.burned = 0, !.paid = 0]
  /\ UNCHANGED <<overflow_checks, clock, entity, member, pw, hist, last>>

DoPoolCreation ==
  \E mega \in BOOLEAN, who \in Holders, spt_amount \in PoolAmounts :
    PoolCreation(mega, who, spt_amount)
DoPoolRedemption ==
  \E who \in Holders, spt_amount \in PoolAmounts : PoolRedemption(who, spt_amount)
DoPoolReward ==
  \E mega \in BOOLEAN, i \in 1..2, amount \in Amounts : PoolReward(mega, i, amount)

NextPool ==
  \/ DoPoolCreation
  \/ DoPoolRedemption
  \/ DoPoolReward

SpecPool == InitPool /\ [][NextPool]_vars

\* ------------------------------------------- operations submitted concurrently
\* SpecLedger: two callers submit deposits, stake-intent withdrawals and
\* entity switches of one Member.  A handler of the sources unpacks its
\* accounts, runs state_transition on them and writes them back; the host
\* serializes by versioning each record: a caller's working set is loaded with
\* the versions it saw, and its commit is rejected when a record it read has
\* changed since.  rd keeps the version of each record, the working set of
\* each caller, the ledger as it is when the accepted operations are run one
\* at a time in the order of their commits (`serial`), the net amount the
\* accepted operations deposited (`net`) and the counts of submitted, accepted
\* and stale operations.
MaxSubmitted == 4
Callers == {"c1", "c2"}
LedgerOps == {"deposit", "stake_intent_withdrawal", "switch_entity"}
Records == Entities \cup {"member"}

\* the records a handler unpacks, and those it writes back
RecordsRead(op) == IF op = "switch_entity" THEN Records ELSE {"e1", "member"}
RecordsWritten(op) == IF op = "switch_entity" THEN Entities ELSE {"e1", "member"}

LedgerMember ==
  [initialized |-> TRUE, entity |-> "e1", generation |-> 0,
   books |-> MemberBooksNew("beneficiary", "d1"),
   last_active_stake_ctx |-> DefaultCtx]

Idle ==
  [pc |-> "idle", op |-> "none", amount |-> 0, is_mega |-> FALSE,
   is_delegate |-> FALSE, entity |-> [e \in Entities |-> Entity0],
   member |-> Member0, seen |-> [r \in Records |-> 0]]

InitLedger ==
  /\ overflow_checks \in BOOLEAN
  /\ clock = 0
  /\ entity = [e \in Entities |-> Entity0]
  /\ member = [m \in Members |-> LedgerMember]
  /\ pw = [w \in Receipts |-> PendingWithdrawal0]
  /\ pool = Pool0
  /\ mega_pool = MegaPool0
  /\ hist = Hist0
  /\ last = NoRecord
  /\ rd = [phase |-> "ledger",
           version |-> [r \in Records |-> 0],
           tx |-> [c \in Callers |-> Idle],
           serial |-> [entity |-> [e \in Entities |-> Entity0], member |-> LedgerMember],
           net |-> RedemptionBasket(0, 0),
           submitted |-> 0, accepted |-> 0, stale |-> 0]

\* the host's check at commit: no record of the working set has changed
record_unchanged(t) == \A r \in RecordsRead(t.op) : t.seen[r] = rd.version[r]

\* state_transition of deposit, of stake_intent_withdrawal and of
\* switch_entity (from the member's entity e1 to e2) on the accounts the
\* handler was given: the accounts it leaves, and whether its arithmetic
\* overflows
ledger_state_transition(t, ent, mem) ==
  LET member1 == IF t.op = "deposit"
                 THEN stake_intent_did_deposit(mem, t.amount, t.is_mega, t.is_delegate)
                 ELSE IF t.op = "stake_intent_withdrawal"
                 THEN stake_intent_did_withdraw(mem, t.amount, t.is_mega, t.is_delegate)
                 ELSE mem
      curr1 == IF t.op = "deposit"
               THEN add_stake_intent(ent["e1"], t.amount, t.is_mega)
               ELSE IF t.op = "stake_intent_withdrawal"
               THEN sub_stake_intent(ent["e1"], t.amount, t.is_mega)
               ELSE remove(ent["e1"], mem)
      new1 == IF t.op = "switch_entity" THEN add(ent["e2"], mem) ELSE ent["e2"]
  IN  [member |-> WrapMember(member1),
       entity |-> [e \in Entities |->
                     IF e = "e1"
                     THEN transition_activation_if_needed(WrapEntity(curr1), StakeContextNew, clock)
                     ELSE IF t.op = "switch_entity"
                     THEN transition_activation_if_needed(WrapEntity(new1), StakeContextNew, clock)
                     ELSE ent[e]],
       panics |-> \/ MemberOverflows(member1)
                  \/ EntityOverflows(curr1)
                  \/ EntityOverflows(new1)]

\* access_control of the handler, and its arithmetic in a build that checks it
ledger_refuses(t, ent, mem) ==
  \/ /\ t.op = "stake_intent_withdrawal"
     /\ t.amount > stake_intent(mem, t.is_mega, t.is_delegate)
  \/ overflow_checks /\ ledger_state_transition(t, ent, mem).panics

\* a caller submits an operation: its working set is loaded
Load(c, op, amount, is_mega, is_delegate) ==
  /\ rd.phase = "ledger"
  /\ rd.tx[c].pc = "idle"
  /\ rd.submitted < MaxSubmitted
  /\ rd' = [rd EXCEPT !.submitted = @ + 1,
                      !.tx[c] = [pc |-> "loaded", op |-> op, amount |-> amount,
                                 is_mega |-> is_mega, is_delegate |-> is_delegate,
                                 entity |-> entity, member |-> member["m1"],
                                 seen |-> rd.version]]
  /\ UNCHANGED <<overflow_checks, clock, entity, member, pw, pool, mega_pool, hist, last>>

\* the operation runs on its working set and commits
Commit(c) ==
  LET t == rd.tx[c]
      st == ledger_state_transition(t, t.entity, t.member)
      signed == IF t.op = "deposit" THEN t.amount
                ELSE IF t.op = "stake_intent_withdrawal" THEN 0 - t.amount
                ELSE 0
      one == ledger_state_transition(t, rd.serial.entity, rd.serial.member)
  IN  /\ rd.phase = "ledger"
      /\ t.pc = "loaded"
      /\ record_unchanged(t)
      /\ ~ledger_refuses(t, t.entity, t.member)
      /\ entity' = [e \in Entities |->
                      IF e \in RecordsWritten(t.op) THEN st.entity[e] ELSE entity[e]]
      /\ member' = [member EXCEPT !["m1"] =
                      IF "member" \in RecordsWritten(t.op) THEN st.member ELSE @]
      /\ hist' = token_transfer(hist, signed, t.is_mega)
      /\ rd' = [rd EXCEPT !.tx[c] = Idle,
                          !.version = [r \in Records |->
                                         IF r \in RecordsWritten(t.op) THEN @[r] + 1 ELSE @[r]],
                          !.serial = [entity |-> one.entity, member |-> one.member],
                          !.net = IF t.is_mega
                                  THEN [@ EXCEPT !.mega_asset = @ + signed]
                                  ELSE [@ EXCEPT !.asset = @ + signed],
                          !.accepted = @ + 1]
      /\ UNCHANGED <<overflow_checks, clock, pw, pool, mega_pool, last>>

\* the operation is rejected: a record changed under it, or the handler
\* returned an error; nothing is written
Reject(c) ==
  LET t == rd.tx[c] IN
  /\ rd.phase = "ledger"
  /\ t.pc = "loaded"
  /\ ~record_unchanged(t) \/ ledger_refuses(t, t.entity, t.member)
  /\ rd' = [rd EXCEPT !.tx[c] = Idle,
                      !.stale = IF record_unchanged(t) THEN @ ELSE @ + 1]
  /\ UNCHANGED <<overflow_checks, clock, entity, member, pw, pool, mega_pool, hist, last>>

DoLoad ==
  \E c \in Callers, op \in LedgerOps, amount \in Amounts, k \in Kinds :
    Load(c, op, amount, k.is_mega, k.is_delegate)
DoCommit == \E c \in Callers : Commit(c)
DoReject == \E c \in Callers : Reject(c)

NextLedger ==
  \/ DoLoad
  \/ DoCommit
  \/ DoReject

SpecLedger == InitLedger /\ [][NextLedger]_vars

\* ===================================================================== claims
Evals == {last.evals[i] : i \in 1..Len(last.evals)}
Elapsed(state) == clock > state.deactivation_start_ts + state.timelock

RECURSIVE BookSum(_, _, _)
BookSum(S, e, f) ==
  IF S = {} THEN 0
  ELSE LET m == CHOOSE x \in S : TRUE
       IN  (IF member[m].entity = e
            THEN member[m].books.main.balances[f]
                   + member[m].books.delegate.balances[f]
            ELSE 0) + BookSum(S \ {m}, e, f)

\* C1: every balance of an Entity (stake_intent, mega_stake_intent, spt_amount,
\* spt_mega_amount) is the sum of that field over the main and delegate books
\* of the Members whose `entity` names it, and no balance is negative.
C1_EntityIsSumOfBooks ==
  \A e \in Entities :
    \A f \in {"stake_intent", "mega_stake_intent", "spt_amount", "spt_mega_amount"} :
      /\ entity[e].balances[f] = BookSum(Members, e, f)
      /\ entity[e].balances[f] >= 0

\* C2: the two legs spt_did_redeem returns add up to the purchase price, asset
\* by asset, and a redemption from the main book hands the delegate (0, 0).
C2_LegsAddUp ==
  rd.phase = "returned" =>
    /\ rd.main_leg.asset + rd.delegate_leg.asset = rd.purchase_price[1]
    /\ rd.mega =>
         rd.main_leg.mega_asset + rd.delegate_leg.mega_asset = rd.purchase_price[2]
    /\ ~rd.mega => rd.main_leg.mega_asset + rd.delegate_leg.mega_asset = 0
    /\ ~rd.delegate => rd.delegate_leg = RedemptionBasket(0, 0)

C2_Witness ==
  /\ rd.phase = "returned" /\ rd.delegate /\ rd.mega
  /\ rd.main_leg.asset > 0 /\ rd.delegate_leg.asset > 0
  /\ rd.main_leg.mega_asset > 0 /\ rd.delegate_leg.mega_asset > 0

\* C3: over any run of deposits, stake-intent withdrawals and redemptions the
\* delegate is never paid more (delegate legs, delegate stake-intent
\* withdrawals) than was deposited into the delegate book.
C3_DelegateNeverOverpaid ==
  \A m \in Members : hist.owed[m].asset >= 0 /\ hist.owed[m].mega_asset >= 0

\* C4: no evaluation of the state machine lowers Entity.generation; it grows,
\* by exactly one, only in an evaluation that goes Inactive -> Active, and an
\* instruction changes the stored generation only through such evaluations.
C4_Evaluations ==
  \A r \in Evals :
    /\ r.after.generation >= r.before.generation
    /\ r.after.generation # r.before.generation =>
         /\ r.after.generation = r.before.generation + 1
         /\ r.before.state = Inactive
         /\ r.after.state = Active
    /\ r.after.state = r.before.state => r.after.generation = r.before.generation

C4_Stored ==
  \A e \in Entities :
    /\ entity'[e].generation >= entity[e].generation
    /\ entity'[e].generation # entity[e].generation =>
         \E i \in 1..Len(last'.evals) :
           /\ last'.evals[i].e = e
           /\ last'.evals[i].before.state = Inactive
           /\ last'.evals[i].after.state = Active
           /\ last'.evals[i].after.generation = entity'[e].generation
           /\ entity'[e].generation = entity[e].generation + 1

C4_GenerationMonotone == [](C4_Evaluations) /\ [][C4_Stored]_vars

C4_Witness ==
  \E r \in Evals :
    /\ r.before.state = Inactive /\ r.before.generation = 1
    /\ r.after.state = Active /\ r.after.generation = 2

\* C5: a deposit that brings the activation amount of an Inactive entity of
\* generation 0 to exactly the threshold, with a mega pool token staked,
\* leaves it Active with generation 1; a deposit that leaves the amount below
\* the threshold leaves it Inactive.
C5_DepositActivates ==
  last.op = "deposit" =>
    \A r \in Evals :
      r.before.state = Inactive =>
        /\ (/\ r.before.generation = 0
            /\ activation_amount(r.before, r.ctx) = reward_activation_threshold
            /\ r.before.balances.spt_mega_amount >= 1)
             => /\ entity[r.e].state = Active
                /\ entity[r.e].generation = 1
        /\ activation_amount(r.before, r.ctx) < reward_activation_threshold
             => entity[r.e].state = Inactive

C5_Witness ==
  /\ last.op = "deposit"
  /\ \E r \in Evals :
       /\ r.before.state = Inactive /\ r.before.generation = 0
       /\ activation_amount(r.before, r.ctx) = reward_activation_threshold
       /\ r.before.balances.spt_mega_amount >= 1
       /\ entity[r.e].state = Active /\ entity[r.e].generation = 1

\* the value the activation gate is about, in unbounded integers
NormalizedValue(e, ctx) ==
  e.balances.spt_amount * ctx.basket[1]
    + e.balances.spt_mega_amount * ctx.mega_basket[1]
    + e.balances.spt_mega_amount * ctx.mega_basket[2] * MSRM_VALUE
    + e.balances.stake_intent
    + e.balances.mega_stake_intent * MSRM_VALUE

\* C6: meets_activation_requirements is activation_amount >= threshold and
\* spt_mega_amount >= 1, activation_amount being the value of the staked pool
\* tokens plus stake_intent + mega_stake_intent * 1_000_000; an entity is
\* Active after an evaluation only if both held at it, and an entity without
\* a mega pool token is never Active after one.
C6_ActivationGate ==
  /\ \A e \in Entities :
       ~activation_amount_overflows(entity[e], StakeContextNew) =>
         /\ activation_amount(entity[e], StakeContextNew)
              = NormalizedValue(entity[e], StakeContextNew)
         /\ meets_activation_requirements(entity[e], StakeContextNew)
              <=> /\ NormalizedValue(entity[e], StakeContextNew)
                       >= reward_activation_threshold
                  /\ entity[e].balances.spt_mega_amount >= 1
  /\ \A r \in Evals :
       /\ r.after.state = Active =>
            /\ activation_amount(r.before, r.ctx) >= reward_activation_threshold
            /\ r.before.balances.spt_mega_amount >= 1
       /\ r.before.balances.spt_mega_amount = 0 => r.after.state # Active

C6_Witness ==
  \E r \in Evals :
    /\ r.before.state = Inactive
    /\ r.before.balances.spt_mega_amount = 0
    /\ activation_amount(r.before, r.ctx) >= reward_activation_threshold
    /\ r.after.state = Inactive

C8_Reactivation ==
  \A r \in Evals :
    (/\ r.before.state.tag = "PendingDeactivation"
     /\ meets_activation_requirements(r.before, r.ctx)
     /\ ~Elapsed(r.before.state))
      => /\ r.after.state = Active
         /\ r.after.generation = r.before.generation

\* C9: an evaluation of an entity in PendingDeactivation(t0, L) at a reading
\* <= t0 + L leaves the state as it is, the first one at a reading > t0 + L
\* makes it Inactive; the stored state leaves PendingDeactivation only in an
\* instruction that evaluates the entity, after t0 + L.
C9_Evaluations ==
  \A r \in Evals :
    r.before.state.tag = "PendingDeactivation" =>
      IF Elapsed(r.before.state)
      THEN r.after.state = Inactive
      ELSE r.after.state = r.before.state

C9_Stored ==
  \A e \in Entities :
    (entity[e].state.tag = "PendingDeactivation"
       /\ entity'[e].state # entity[e].state)
      => /\ clock' > entity[e].state.deactivation_start_ts + entity[e].state.timelock
         /\ \E i \in 1..Len(last'.evals) :
              /\ last'.evals[i].e = e
              /\ last'.evals[i].before.state = entity[e].state
              /\ last'.evals[i].after.state = Inactive

C9_TimelockExpiry == [](C9_Evaluations) /\ [][C9_Stored]_vars

C9_Witness ==
  \E r \in Evals :
    /\ r.before.state.tag = "PendingDeactivation"
    /\ clock = r.before.state.deactivation_start_ts + r.before.state.timelock + 1
    /\ r.after.state = Inactive

\* C10: a receipt pays out at most once: once an end-withdrawal has succeeded
\* the receipt is burned, every end-withdrawal on it fails whatever the
\* caller passes, and burned never goes back to false.
C10_PaidOnce ==
  \A w \in Receipts :
    /\ hist.payouts[w] <= 1
    /\ hist.payouts[w] = 1 => pw[w].burned
    /\ pw[w].burned =>
         \A m \in Members, e \in Entities, delegate_accounts \in BOOLEAN,
            auth \in AuthInputs, now \in clock..MaxClock :
              EndStakeWithdrawalResult(w, m, e, delegate_accounts, auth, now) # "ok"

C10_StaysBurned == \A w \in Receipts : pw[w].burned => pw'[w].burned

StartedReceipts == {w \in Receipts : pw[w].initialized /\ ~pw[w].burned}

\* C11: an EndStakeWithdrawal instruction on a started receipt, sent with the
\* accounts of the member that started it, fails with
\* WithdrawalTimelockNotPassed at a clock reading < end_ts and succeeds at
\* every reading >= end_ts, end_ts itself included.
C11_TimelockEnforced ==
  \A w \in StartedReceipts : \A m \in Members, now \in clock..MaxClock :
    (member[m].initialized /\ pw[w].member = m) =>
      /\ EndStakeWithdrawalResult(w, m, member[m].entity, TRUE,
                                  AuthOk(member[m].books.delegate.owner), now)
           = (IF now < pw[w].end_ts THEN "WithdrawalTimelockNotPassed" ELSE "ok")
      /\ entry_end_stake_withdrawal
           = (IF now < pw[w].end_ts THEN "WithdrawalTimelockNotPassed" ELSE "ok")

\* the same for the handler alone, as if the entry point dispatched to it
C11_HandlerAlone ==
  \A w \in StartedReceipts : \A m \in Members, now \in clock..MaxClock :
    (member[m].initialized /\ pw[w].member = m) =>
      EndStakeWithdrawalResult(w, m, member[m].entity, TRUE,
                               AuthOk(member[m].books.delegate.owner), now)
        = (IF now < pw[w].end_ts THEN "WithdrawalTimelockNotPassed" ELSE "ok")

\* the member holds pool tokens of either pool in either book
HoldsStake(mem) ==
  \E b \in BookNames : \E f \in {"spt_amount", "spt_mega_amount"} :
    mem.books[b].balances[f] # 0

AllKinds == [is_mega : BOOLEAN, is_delegate : BOOLEAN]

\* C12: a stake request, sent with the member's own accounts and all signers,
\* of a Member whose generation differs from the entity's and that holds pool
\* tokens is turned down with StaleStakeNeedsWithdrawal; one whose four pool
\* token balances are zero is not turned down by that check.
C12_StaleStakeBlocked ==
  \A m \in Members : \A spt_amount \in Amounts, k \in AllKinds, now \in Readings :
    LET e == member[m].entity
        ent == with_entity(e, StakeContextNew, now)
        err == stake_access_control(m, e, ent, spt_amount, k.is_mega, k.is_delegate,
                                    AuthOk(member[m].books.delegate.owner),
                                    StakeContextNew)
    IN  (member[m].initialized /\ ~StakeContextFails
           /\ member[m].generation # ent.generation) =>
          /\ HoldsStake(member[m]) => err = "StaleStakeNeedsWithdrawal"
          /\ ~HoldsStake(member[m]) => err # "StaleStakeNeedsWithdrawal"

\* C13: stake_is_empty is true exactly when spt_amount and spt_mega_amount
\* are zero in the main and in the delegate book of the Member.
C13_StakeIsEmpty ==
  \A m \in Members :
    member[m].initialized => (stake_is_empty(member[m]) <=> ~HoldsStake(member[m]))

\* what the activation gate of a stake request adds up, in unbounded integers:
\* the value of the requested pool tokens and the activation amount of the
\* entity as with_entity left it
GateValue(e, spt_amount, is_mega, now) ==
  srm_equivalent(StakeContextNew, spt_amount, is_mega)
    + activation_amount(with_entity(e, StakeContextNew, now), StakeContextNew)

\* the pool tokens a step created, and in which pool
Created == (pool'.supply - pool.supply) + (mega_pool'.supply - mega_pool.supply)

\* C14 (requests): a stake request whose value plus the activation amount of
\* the entity is below the threshold never succeeds, and is answered
\* EntityNotActivated unless an earlier check (stale stake) answers first.
C14_Rejected ==
  \A m \in Members : \A spt_amount \in Amounts, k \in AllKinds, now \in Readings :
    LET e == member[m].entity
        res == StakeResult(m, e, spt_amount, k.is_mega, k.is_delegate,
                           AuthOk(member[m].books.delegate.owner), now)
    IN  (/\ member[m].initialized
         /\ ~StakeContextFails
         /\ ~(overflow_checks /\ with_entity_panics(e, StakeContextNew))
         /\ GateValue(e, spt_amount, k.is_mega, now) < reward_activation_threshold)
          => res \in {"EntityNotActivated", "StaleStakeNeedsWithdrawal"}

\* C14 (steps): a step that creates pool tokens, or that records a stake, is
\* one whose request met the gate; no other stake request changes a Member,
\* an Entity or a pool.
C14_NothingChanges ==
  (\/ Created > 0
   \/ /\ last'.op = "stake"
      /\ <<member, entity, pool, mega_pool>>' # <<member, entity, pool, mega_pool>>) =>
    /\ last'.op = "stake" /\ Created > 0
    /\ srm_equivalent(last'.evals[1].ctx, Created, mega_pool' # mega_pool)
         + activation_amount(last'.evals[1].after, last'.evals[1].ctx)
           >= reward_activation_threshold

C15_StakeOnlyOnActive ==
  last.op = "stake" =>
    /\ meets_activation_requirements(last.evals[2].before, last.evals[2].ctx)
    /\ last.evals[2].after.state = Active

\* C16: a start-withdrawal of pool tokens the member's main book holds, on an
\* entity that is Inactive, succeeds for the SRM and for the MSRM pool; the
\* receipt records the value of spt_amount at member.last_active_stake_ctx,
\* which is at most the current value, asset by asset.
C16_InactiveMarkedPrice ==
  \A w \in Receipts, m \in Members : \A spt_amount \in Amounts, mega \in BOOLEAN :
    LET e == member[m].entity
        ctx == StakeContextNew
        held == member[m].books.main.balances[IF mega THEN "spt_mega_amount"
                                                       ELSE "spt_amount"]
        current == basket_quantities(ctx, spt_amount, mega)
        marked == pool_return_forfeited_assets(member[m], spt_amount, mega)
        st == start_stake_withdrawal_state_transition(
                w, m, e, spt_amount, mega, FALSE, ctx, clock)
    IN  (/\ member[m].initialized /\ ~pw[w].initialized
         /\ ~StakeContextFails
         /\ entity[e].state = Inactive
         /\ spt_amount <= held /\ held < MaxVault + 1) =>
          /\ StartStakeWithdrawalResult(w, m, e, spt_amount, mega, FALSE,
                                        AuthOk(member[m].books.delegate.owner), clock)
               = "ok"
          /\ \A i \in 1..Len(marked) : marked[i] <= current[i]
          /\ st.pending_withdrawal.payment.asset = marked[1]
          /\ mega => st.pending_withdrawal.payment.mega_asset = marked[2]

\* the pool tokens of one pool a member holds in one book
Held(mem, mega, delegate) ==
  mem.books[BookOf(delegate)].balances[IF mega THEN "spt_mega_amount" ELSE "spt_amount"]

\* C17 (steps): a step that writes an uninitialized receipt is a
\* start-withdrawal that leaves it initialized and unburned, start_ts the
\* clock reading, end_ts that reading plus withdrawal_timelock +
\* deactivation_timelock_premium, spt_amount the pool tokens taken from the
\* member's book and the two payments the legs of spt_did_redeem; a receipt
\* that is initialized is written by no later start-withdrawal.
C17_ReceiptWritten ==
  \A w \in Receipts :
    /\ (~pw[w].initialized /\ pw'[w] # pw[w]) =>
         LET r == pw'[w]
             m == r.member
             mega == mega_pool' # mega_pool
             ctx == last'.evals[1].ctx
             legs == spt_did_redeem(member[m], r.spt_amount,
                                    basket_quantities(ctx, r.spt_amount, mega),
                                    mega, r.delegate)
         IN  /\ last'.op = "start_stake_withdrawal"
             /\ r.initialized /\ ~r.burned
             /\ r.start_ts = clock'
             /\ r.end_ts = clock' + withdrawal_timelock + deactivation_timelock_premium
             /\ r.spt_amount \in Amounts
             /\ Wrap(Held(member[m], mega, r.delegate) - r.spt_amount)
                  = Held(member'[m], mega, r.delegate)
             /\ r.payment = legs.main
             /\ r.delegate_payment = legs.delegate
             /\ r.payment.asset + r.delegate_payment.asset
                  = basket_quantities(ctx, r.spt_amount, mega)[1]
    /\ pw[w].initialized => pw'[w] = [pw[w] EXCEPT !.burned = pw'[w].burned]

\* C17 (requests): a start-withdrawal on a receipt that is initialized is
\* answered AlreadyInitialized, whatever is asked for.
C17_AlreadyInitialized ==
  \A w \in Receipts, m \in Members :
    \A spt_amount \in Amounts, k \in AllKinds, now \in Readings :
      (pw[w].initialized /\ member[m].initialized /\ ~StakeContextFails) =>
        StartStakeWithdrawalResult(w, m, member[m].entity, spt_amount, k.is_mega,
                                   k.is_delegate,
                                   AuthOk(member[m].books.delegate.owner), now)
          = "AlreadyInitialized"

IntentField(is_mega) == IF is_mega THEN "mega_stake_intent" ELSE "stake_intent"
TokenField(is_mega) == IF is_mega THEN "mega_asset" ELSE "asset"

\* C18 (deposit): after a deposit of A the stake_intent of the member's book
\* and of the entity are each A more than before it (in the u64 word), and
\* the vault holds A more, taken from the depositor.
C18_Deposited ==
  last.op = "deposit" =>
    LET m == last.args[1]
        e == last.args[2]
        A == last.args[3]
        is_mega == last.args[4]
        b == BookOf(last.args[5])
    IN  /\ member[m].books[b].balances[IntentField(is_mega)]
             = Wrap(last.pre.book[IntentField(is_mega)] + A)
        /\ entity[e].balances[IntentField(is_mega)]
             = Wrap(last.pre.entity[IntentField(is_mega)] + A)
        /\ hist.vault[TokenField(is_mega)] = last.pre.vault[TokenField(is_mega)] + A
        /\ hist.depositor[TokenField(is_mega)]
             = last.pre.depositor[TokenField(is_mega)] - A

\* C18 (withdrawal): a withdrawal of A from the book the instruction before
\* it deposited A into puts the book (stake_intent and cost basis), the
\* entity's balances, the vault and the depositor's token account back to
\* what they were before the deposit.
C18_Restored ==
  (/\ last.op = "deposit"
   /\ last'.op = "stake_intent_withdrawal"
   /\ last'.args = last.args
   /\ hist' # hist) =>
     Snapshot(last.args[1], last.args[2], last.args[5])' = last.pre

RequestAmounts == 1..(MaxBalance + 1)

\* C19 (requests): a stake-intent withdrawal of more than the stake-intent of
\* the selected book is answered InsufficientStakeIntentBalance.
C19_Rejected ==
  \A m \in Members : \A amount \in RequestAmounts, k \in AllKinds, now \in Readings :
    (/\ member[m].initialized
     /\ ~StakeContextFails
     /\ amount > stake_intent(member[m], k.is_mega, k.is_delegate)) =>
       StakeIntentWithdrawalResult(m, member[m].entity, amount, k.is_mega, k.is_delegate,
                                   AuthOk(member[m].books.delegate.owner), now)
         = "InsufficientStakeIntentBalance"

\* C19 (steps): tokens leave a stake-intent vault only in a withdrawal of an
\* amount the selected book held, and the book is debited that amount, not
\* a clamped one.
C19_NeverClamped ==
  (hist'.vault.asset < hist.vault.asset \/ hist'.vault.mega_asset < hist.vault.mega_asset) =>
    /\ last'.op = "stake_intent_withdrawal"
    /\ LET m == last'.args[1]
           amount == last'.args[3]
           is_mega == last'.args[4]
           is_delegate == last'.args[5]
       IN  /\ amount <= stake_intent(member[m], is_mega, is_delegate)
           /\ stake_intent(member'[m], is_mega, is_delegate)
                = stake_intent(member[m], is_mega, is_delegate) - amount
           /\ hist'.vault[TokenField(is_mega)] = hist.vault[TokenField(is_mega)] - amount

\* C19: a stake-intent withdrawal whose amount exceeds the stake-intent of the
\* selected (mega, delegate) book is rejected with
\* InsufficientStakeIntentBalance; no token moves and no balance changes.
C19_InsufficientStakeIntent == [](C19_Rejected) /\ [][C19_NeverClamped]_vars

\* a book that holds stake-intent, a vault that holds more, and a request for
\* more than the book holds
C19_Witness ==
  \E m \in Members : \E k \in AllKinds :
    /\ member[m].initialized
    /\ stake_intent(member[m], k.is_mega, k.is_delegate) = 1
    /\ hist.vault[TokenField(k.is_mega)] >= 2
    /\ StakeIntentWithdrawalResult(m, member[m].entity, 2, k.is_mega, k.is_delegate,
                                   AuthOk(member[m].books.delegate.owner), clock)
         = "InsufficientStakeIntentBalance"

\* ---------------------------------------------------------------------- C20
\* C20: after a successful switch-entity the Member's entity field names the
\* new entity, and every further switch request of that Member that names the
\* old entity as its current one is rejected.
C20_SwitchMovesMember ==
  last.op = "switch_entity" =>
    /\ member[last.args[1]].entity = last.args[3]
    /\ \A new \in Entities, auth \in AuthInputs, now \in Readings :
         SwitchEntityResult(last.args[1], last.args[2], new, auth, now) # "ok"

\* ---------------------------------------------------------------------- C21
\* the callers that lack a signature or pass a key that is not the owner of
\* the delegate book of m
NotDualSigned(m) ==
  {auth \in AuthInputs : \/ ~auth.beneficiary_signer
                         \/ ~auth.delegate_signer
                         \/ auth.delegate_owner # member[m].books.delegate.owner}

\* the caller with both signatures and the key of the delegate book of m
DualSigned(m) == AuthOk(member[m].books.delegate.owner)

DelegateRefusals == {"Unauthorized", "InvalidMemberDelegateOwner"}

\* a request on the delegate book that succeeds when both sign is refused
\* when they do not
C21_DepositGuarded ==
  \A m \in Members, auth \in AuthInputs, amount \in Amounts,
     is_mega \in BOOLEAN, now \in Readings :
    /\ member[m].initialized
    /\ auth \in NotDualSigned(m)
    /\ DepositResult(m, member[m].entity, amount, is_mega, TRUE, DualSigned(m), now) = "ok"
    => DepositResult(m, member[m].entity, amount, is_mega, TRUE, auth, now)
         \in DelegateRefusals

C21_WithdrawalGuarded ==
  \A m \in Members, auth \in AuthInputs, amount \in Amounts,
     is_mega \in BOOLEAN, now \in Readings :
    /\ member[m].initialized
    /\ auth \in NotDualSigned(m)
    /\ StakeIntentWithdrawalResult(m, member[m].entity, amount, is_mega, TRUE,
                                   DualSigned(m), now) = "ok"
    => StakeIntentWithdrawalResult(m, member[m].entity, amount, is_mega, TRUE, auth, now)
         \in DelegateRefusals

C21_StakeGuarded ==
  \A m \in Members, auth \in AuthInputs, amount \in Amounts,
     is_mega \in BOOLEAN, now \in Readings :
    /\ member[m].initialized
    /\ auth \in NotDualSigned(m)
    /\ StakeResult(m, member[m].entity, amount, is_mega, TRUE, DualSigned(m), now) = "ok"
    => StakeResult(m, member[m].entity, amount, is_mega, TRUE, auth, now)
         \in DelegateRefusals

C21_StartWithdrawalGuarded ==
  \A m \in Members, w \in Receipts, auth \in AuthInputs, amount \in Amounts,
     is_mega \in BOOLEAN, now \in Readings :
    /\ member[m].initialized
    /\ auth \in NotDualSigned(m)
    /\ StartStakeWithdrawalResult(w, m, member[m].entity, amount, is_mega, TRUE,
                                  DualSigned(m), now) = "ok"
    => StartStakeWithdrawalResult(w, m, member[m].entity, amount, is_mega, TRUE, auth, now)
         \in DelegateRefusals

\* C21: a deposit, stake-intent withdrawal, stake or start-withdrawal on the
\* delegate book that is not signed by both the beneficiary and the owner of
\* the delegate book is answered Unauthorized or InvalidMemberDelegateOwner
\* (and so writes nothing).
C21_DelegateDualSignature ==
  /\ C21_DepositGuarded
  /\ C21_WithdrawalGuarded
  /\ C21_StakeGuarded
  /\ C21_StartWithdrawalGuarded

\* ---------------------------------------------------------------------- C22
\* C22: a set_delegate call that goes through was made on a delegate book
\* holding no staking pool token of either pool, so the book it replaces by an
\* empty one held no stake.
C22_NoStakeOrphaned ==
  rd.phase = "set_delegate" =>
    /\ rd.book.balances.spt_amount = 0
    /\ rd.book.balances.spt_mega_amount = 0

\* ---------------------------------------------------------------------- C23
DelegateLeg(w) ==
  pw[w].delegate_payment.asset > 0 \/ pw[w].delegate_payment.mega_asset > 0

\* a request without delegate accounts that passes access control on a
\* receipt with a delegate leg is answered DelegateAccountsNotProvided
C23_Refused ==
  \A w \in Receipts, m \in Members, auth \in AuthInputs, now \in Readings :
    /\ member[m].initialized
    /\ DelegateLeg(w)
    /\ end_stake_withdrawal_access_control(w, m, member[m].entity, auth, now) = "ok"
    => EndStakeWithdrawalResult(w, m, member[m].entity, FALSE, auth, now)
         = "DelegateAccountsNotProvided"

\* a receipt with a delegate leg is burned, and paid, only by a request that
\* brings the delegate accounts
C23_NothingPaid ==
  \A w \in Receipts :
    /\ DelegateLeg(w)
    /\ pw'[w].burned # pw[w].burned \/ hist'.payouts[w] # hist.payouts[w]
    => last'.op = "end_stake_withdrawal" /\ last'.args[1] = w /\ last'.args[4]

\* C23: end-withdrawal on a receipt with a delegate leg and no delegate
\* destination accounts fails with DelegateAccountsNotProvided; the receipt
\* stays unburned and nothing is paid from it.
C23_DelegateAccountsNotProvided == [](C23_Refused) /\ [][C23_NothingPaid]_vars

C23_Witness ==
  \E w \in Receipts, m \in Members :
    /\ member[m].initialized
    /\ DelegateLeg(w) /\ ~pw[w].burned /\ hist.payouts[w] = 0
    /\ clock >= pw[w].end_ts
    /\ EndStakeWithdrawalResult(w, m, member[m].entity, FALSE, DualSigned(m), clock)
         = "DelegateAccountsNotProvided"

\* ---------------------------------------------------------------------- C24
\* the accounts and vaults the six instructions write
Ledger == <<entity, member, pw, pool, mega_pool, hist.vault>>

\* every check, arithmetic step, pool call and token transfer of the request
\* recorded in r passes in the present state, at the clock reading now
DepositPasses(r, now) ==
  LET m == r.args[1]  e == r.args[2] IN
  /\ ~StakeContextFails
  /\ deposit_access_control(m, e, r.args[5], DualSigned(m)) = "ok"
  /\ overflow_checks =>
       ~deposit_state_transition(m, e, r.args[3], r.args[4], r.args[5],
                                 StakeContextNew, now).panics

StakeIntentWithdrawalPasses(r, now) ==
  LET m == r.args[1]  e == r.args[2] IN
  /\ ~StakeContextFails
  /\ stake_intent_withdrawal_access_control(m, e, r.args[3], r.args[4], r.args[5],
                                            DualSigned(m)) = "ok"
  /\ r.args[3] <= hist.vault[TokenField(r.args[4])]
  /\ overflow_checks =>
       ~stake_intent_withdrawal_state_transition(m, e, r.args[3], r.args[4], r.args[5],
                                                 StakeContextNew, now).panics

StakePasses(r, now) ==
  LET m == r.args[1]  e == r.args[2]
      ctx == StakeContextNew
      ent == with_entity(e, ctx, now)
  IN
  /\ ~StakeContextFails
  /\ overflow_checks => ~with_entity_panics(e, ctx)
  /\ stake_access_control(m, e, ent, r.args[3], r.args[4], r.args[5],
                          DualSigned(m), ctx) = "ok"
  /\ ~creation_fails(IF r.args[4] THEN mega_pool ELSE pool, r.args[3])
  /\ overflow_checks =>
       ~stake_state_transition(m, ent, r.args[3], r.args[4], r.args[5], ctx, now).panics

StartStakeWithdrawalPasses(r, now) ==
  LET w == r.args[1]  m == r.args[2]  e == r.args[3]
      ctx == StakeContextNew
  IN
  /\ ~StakeContextFails
  /\ start_stake_withdrawal_access_control(w, m, e, DualSigned(m)) = "ok"
  /\ ~redemption_fails(IF r.args[5] THEN mega_pool ELSE pool, r.args[4])
  /\ ~basket_quantities_fails(ctx, r.args[4], r.args[5])
  /\ entity[e].state = Inactive =>
       ~pool_return_forfeited_assets_fails(
          member[m], basket_quantities(ctx, r.args[4], r.args[5]), r.args[4], r.args[5])
  /\ overflow_checks =>
       ~start_stake_withdrawal_state_transition(
          w, m, e, r.args[4], r.args[5], r.args[6], ctx, now).panics

EndStakeWithdrawalPasses(r, now) ==
  LET w == r.args[1]  m == r.args[2]  e == r.args[3] IN
  /\ end_stake_withdrawal_access_control(w, m, e, DualSigned(m), now) = "ok"
  /\ ~end_stake_withdrawal_state_transition(w, r.args[4]).fails

SwitchEntityPasses(r, now) ==
  LET m == r.args[1]  curr == r.args[2]  new == r.args[3] IN
  /\ ~StakeContextFails
  /\ switch_entity_access_control(m, curr, DualSigned(m)) = "ok"
  /\ curr # new
  /\ overflow_checks =>
       ~switch_entity_state_transition(m, curr, new, StakeContextNew, now).panics

Passes(r, now) ==
  CASE r.op = "deposit" -> DepositPasses(r, now)
    [] r.op = "stake_intent_withdrawal" -> StakeIntentWithdrawalPasses(r, now)
    [] r.op = "stake" -> StakePasses(r, now)
    [] r.op = "start_stake_withdrawal" -> StartStakeWithdrawalPasses(r, now)
    [] r.op = "end_stake_withdrawal" -> EndStakeWithdrawalPasses(r, now)
    [] r.op = "switch_entity" -> SwitchEntityPasses(r, now)
    [] OTHER -> r.op \in {"create_member", "update_member"}

C24_Step == Ledger' # Ledger => Passes(last', clock')

MutatingOps ==
  {"deposit", "stake_intent_withdrawal", "stake", "start_stake_withdrawal",
   "end_stake_withdrawal", "switch_entity"}

\* the entity accounts the instruction recorded in r was handed
OperatedEntities(r) ==
  CASE r.op \in {"deposit", "stake_intent_withdrawal", "stake"} -> {r.args[2]}
    [] r.op \in {"start_stake_withdrawal", "end_stake_withdrawal"} -> {r.args[3]}
    [] r.op = "switch_entity" -> {r.args[2], r.args[3]}
    [] OTHER -> {}

\* the instruction evaluated the state machine of each of its entities twice
C25_EvaluatedTwice ==
  last.op \in MutatingOps =>
    \A e \in OperatedEntities(last) :
      Cardinality({i \in 1..Len(last.evals) : last.evals[i].e = e}) = 2

\* the state an instruction's checks compared was one an evaluation with the
\* instruction's stake context and clock reading leaves as it is
C25_FreshState ==
  last'.op = "start_stake_withdrawal" /\ Ledger' # Ledger =>
    transition_activation_if_needed(entity[last'.args[3]], StakeContextNew, clock').state
      = entity[last'.args[3]].state

\* C25: every mutating instruction evaluates the activation state machine
\* before its effect and again after it, so the checks of the instruction on
\* entity.state see the state such an evaluation leaves.
C25_EvaluatedBeforeAndAfter == [](C25_EvaluatedTwice) /\ [][C25_FreshState]_vars

C25_StartSeesFreshState == [][C25_FreshState]_vars

\* ---------------------------------------------------------------------- C26
\* the evaluations an instruction makes before its access control: the one of
\* with_entity in the stake handler
BeforeAccessControl(r) == IF r.op = "stake" THEN {1} ELSE {}

\* C26: within one instruction no field of the Entity, its state and
\* generation included, is modified before the access control of the
\* instruction has passed: what is evaluated before it leaves the Entity as
\* the account holds it.
C26_NothingBeforeAccessControl ==
  last.op \in MutatingOps =>
    \A i \in BeforeAccessControl(last) : last.evals[i].after = last.evals[i].before


\* the access control of the request recorded in r passes in the present
\* state; the stake handler runs it on the entity with_entity hands it
AccessControlPasses(r, now) ==
  CASE r.op = "deposit" ->
         deposit_access_control(r.args[1], r.args[2], r.args[5], DualSigned(r.args[1])) = "ok"
    [] r.op = "stake_intent_withdrawal" ->
         stake_intent_withdrawal_access_control(
           r.args[1], r.args[2], r.args[3], r.args[4], r.args[5],
           DualSigned(r.args[1])) = "ok"
    [] r.op = "stake" ->
         stake_access_control(
           r.args[1], r.args[2], with_entity(r.args[2], StakeContextNew, now),
           r.args[3], r.args[4], r.args[5], DualSigned(r.args[1]), StakeContextNew) = "ok"
    [] r.op = "start_stake_withdrawal" ->
         start_stake_withdrawal_access_control(
           r.args[1], r.args[2], r.args[3], DualSigned(r.args[2])) = "ok"
    [] r.op = "end_stake_withdrawal" ->
         end_stake_withdrawal_access_control(
           r.args[1], r.args[2], r.args[3], DualSigned(r.args[2]), now) = "ok"
    [] r.op = "switch_entity" ->
         switch_entity_access_control(r.args[1], r.args[2], DualSigned(r.args[1])) = "ok"

\* an instruction that writes has passed its access control on the accounts
\* as they were, and what it evaluated before the access control changed no
\* balance of the entity
C26_Step ==
  Ledger' # Ledger /\ last'.op \in MutatingOps =>
    /\ AccessControlPasses(last', clock')
    /\ \A i \in BeforeAccessControl(last') :
         /\ last'.evals[i].before = entity[last'.evals[i].e]
         /\ last'.evals[i].after.balances = entity[last'.evals[i].e].balances

C26_AccessControlFirst == [][C26_Step]_vars

\* a stake that went through after with_entity had changed the entity's state
C26_Witness ==
  /\ last.op = "stake"
  /\ last.evals[1].after.state # last.evals[1].before.state
  /\ last.evals[1].after.generation # last.evals[1].before.generation


\* ---------------------------------------------------------------------- C27
\* products and sums of unbounded integers, U64 standing for every value
\* that does not fit the word
SatMul(a, b) == IF MulOverflows(a, b) THEN U64 ELSE a * b
SatAdd(a, b) == IF a + b >= U64 THEN U64 ELSE a + b

C28_BasketQuantities ==
  LET b == IF rd.is_mega THEN rd.ctx.mega_basket ELSE rd.ctx.basket
      exceeds == \E i \in 1..Len(b) : SatMul(rd.spt_count, b[i]) >= U64
  IN  rd.phase = "basket_quantities"
      => IF exceeds
         THEN rd.fails /\ rd.result = <<>>
         ELSE /\ ~rd.fails
              /\ Len(rd.result) = Len(b)
              /\ \A i \in 1..Len(b) : rd.result[i] = rd.spt_count * b[i]

\* the first product fits and the second does not
C28_Witness ==
  /\ rd.phase = "basket_quantities" /\ rd.is_mega /\ rd.fails
  /\ rd.ctx.mega_basket[1] = 1 /\ rd.spt_count > 1
  /\ MulOverflows(rd.ctx.mega_basket[2], rd.spt_count)

\* ---------------------------------------------------------------------- C29
\* how a call of srm_equivalent or of the activation check ended: neither
\* returns a Result, so it panics or returns a value
Outcome(r) == IF r.panics THEN "Panic" ELSE "Returned"

\* some + or * of the call just made left the word
ValueExceeds ==
  CASE rd.phase = "srm_equivalent" ->
         srm_equivalent_overflows(rd.ctx, rd.spt_count, rd.is_mega)
    [] rd.phase = "meets_activation_requirements" ->
         activation_amount_overflows([Entity0 EXCEPT !.balances = rd.balances], rd.ctx)
    [] OTHER -> FALSE

\* C29: no value computation wraps or saturates: when srm_equivalent,
\* activation_amount or the stake-intent equivalent would exceed the word,
\* the operation fails with CheckedFailure and no wrapped value reaches the
\* activation decision.
C29_NoWrappedValue == ValueExceeds => Outcome(rd) = "CheckedFailure"

\* the part of C29 about the decision alone: an activation check whose value
\* left the word does not return
C29_NoWrappedDecision ==
  rd.phase = "meets_activation_requirements" /\ ValueExceeds => rd.panics

\* ---------------------------------------------------------------------- C30
\* C30: every Entity and Member bookkeeping operation fails the whole
\* operation when a subtraction would go below zero or an addition above the
\* word; in particular a start-withdrawal of more pool tokens than the
\* selected book holds fails and leaves no wrapped balance: a
\* start-withdrawal that took effect asked for no more than the book held.
C30_Step ==
  last'.op = "start_stake_withdrawal"
  => last'.args[4] <= Held(member[last'.args[2]], last'.args[5], last'.args[6])

C30_CheckedBookkeeping == [][C30_Step]_vars

\* what C30 forbids, seen in the state: a book holding more pool tokens than
\* the two pools have issued
C30_NoWrappedBalance ==
  \A m \in Members, b \in BookNames :
    /\ member[m].books[b].balances.spt_amount <= pool.supply + mega_pool.supply
    /\ member[m].books[b].balances.spt_mega_amount <= pool.supply + mega_pool.supply

\* ---------------------------------------------------------------------- C31
\* the value, at the current baskets, of the pool tokens a book holds: in
\* SRM and in MSRM
SptValue(bal, ctx) ==
  SatAdd(SatMul(bal.spt_amount, ctx.basket[1]),
         SatMul(bal.spt_mega_amount, ctx.mega_basket[1]))
MegaSptValue(bal, ctx) == SatMul(bal.spt_mega_amount, ctx.mega_basket[2])

\* C31: in every reachable state, for each book and each asset, cost_basis is
\* at most stake_intent plus the current basket value of the book's pool
\* tokens in that asset (the per-token basket of the pool never decreasing).
C31_CostBasisCovered ==
  \A m \in Members, b \in BookNames :
    LET bal == member[m].books[b].balances IN
    rd.fell \/
    /\ bal.cost_basis <= SatAdd(bal.stake_intent, SptValue(bal, StakeContextNew))
    /\ bal.mega_cost_basis
         <= SatAdd(bal.mega_stake_intent, MegaSptValue(bal, StakeContextNew))

\* ---------------------------------------------------------------------- C36
\* C36: in every reachable state each book has stake_intent <= cost_basis and
\* mega_stake_intent <= mega_cost_basis, so that a stake-intent withdrawal
\* which passes the balance check cannot bring cost_basis below zero, also
\* after pool tokens of the book were redeemed above the price they were
\* staked at.
C36_StakeIntentWithinCostBasis ==
  \A m \in Members, b \in BookNames :
    /\ member[m].books[b].balances.stake_intent
         <= member[m].books[b].balances.cost_basis
    /\ member[m].books[b].balances.mega_stake_intent
         <= member[m].books[b].balances.mega_cost_basis

\* C33: under pool creations, redemptions and rewards the basket of one pool
\* token (vault quantity over pool-token supply, asset by asset) never
\* decreases: a step taken with pool tokens in circulation leaves a basket at
\* least as large as the one before it, the price a stake context marks.
C33_Step ==
  /\ pool.supply > 0 =>
       \A i \in 1..1 : get_basket(pool', 1)[i] >= get_basket(pool, 1)[i]
  /\ mega_pool.supply > 0 =>
       \A i \in 1..2 : get_basket(mega_pool', 1)[i] >= get_basket(mega_pool, 1)[i]
C33_BasketNeverDecreases == [][C33_Step]_vars

\* C34: a redemption of spt_amount burns exactly spt_amount pool tokens of the
\* caller and pays exactly floor(vault * spt_amount / supply) out of the vault;
\* a redemption of every outstanding pool token leaves the caller's pool-token
\* account and the vault at 0.
C34_RedemptionBurnsSptAmount ==
  rd.phase = "pool" /\ rd.op = "redemption" =>
    /\ rd.burned = rd.spt
    /\ rd.paid = (rd.before.vault[1] * rd.spt) \div rd.before.supply
    /\ rd.spt = rd.before.supply => rd.held[rd.who] = 0 /\ pool.vault[1] = 0

\* C35: for one pool state and one spt_amount the basket a creation charges is,
\* asset by asset, the basket get_basket reports, pools without pool tokens in
\* circulation included.
C35_CreationChargesReportedBasket ==
  rd.phase = "pool" /\ rd.op = "creation" => rd.charged = rd.reported

\* ---------------------------------------------------------------------- C37
\* C37: after every successful stake the member's generation equals the
\* entity's generation at the end of the stake, the stake that activates the
\* entity included, and no member's generation is ever above its entity's.
C37_Step ==
  /\ last'.op = "stake" /\ last' # last =>
       member'[last'.args[1]].generation = entity'[last'.args[2]].generation
  /\ \A m \in Members :
       member'[m].initialized =>
         member'[m].generation <= entity'[member'[m].entity].generation

C37_StakeMarksGeneration == [][C37_Step]_vars

\* ---------------------------------------------------------------------- C38
\* C38: transition_activation_if_needed is idempotent for a fixed stake
\* context, registrar and clock: evaluating the state machine once more right
\* after an evaluation of an instruction changes nothing, so the evaluations
\* before and after an effect that changes no balance make one transition at
\* most.
C38_TransitionIdempotent ==
  \A i \in DOMAIN last.evals :
    transition_activation_if_needed(last.evals[i].after, last.evals[i].ctx, clock)
      = last.evals[i].after

\* ---------------------------------------------------------------------- C39
\* the steps of the activation state machine
FsmSteps ==
  {<<"Inactive", "Active">>, <<"Active", "PendingDeactivation">>,
   <<"PendingDeactivation", "Active">>, <<"PendingDeactivation", "Inactive">>}

\* C39: an evaluation of the state machine leaves the state as it is or takes
\* one of Inactive -> Active, Active -> PendingDeactivation,
\* PendingDeactivation -> Active, PendingDeactivation -> Inactive (never
\* Active -> Inactive, never Inactive -> PendingDeactivation), and it makes an
\* entity Inactive only at a reading above deactivation_start_ts + timelock;
\* an entity account becomes Inactive only out of PendingDeactivation, at such
\* a reading, and the clock never goes back: no entity is Inactive at a
\* reading <= deactivation_start_ts + timelock of its latest deactivation.
C39_Evaluations ==
  \A r \in Evals :
    /\ \/ r.after.state.tag = r.before.state.tag
       \/ <<r.before.state.tag, r.after.state.tag>> \in FsmSteps
    /\ r.after.state.tag = "Inactive" /\ r.before.state.tag # "Inactive" =>
         clock > r.before.state.deactivation_start_ts + r.before.state.timelock

C39_Stored ==
  /\ clock' >= clock
  /\ \A e \in Entities :
       entity'[e].state.tag = "Inactive" /\ entity[e].state.tag # "Inactive" =>
         /\ entity[e].state.tag = "PendingDeactivation"
         /\ entity[e].state.timelock >= 0
         /\ clock' > entity[e].state.deactivation_start_ts + entity[e].state.timelock

C39_FsmSteps == [](C39_Evaluations) /\ [][C39_Stored]_vars

\* an evaluation made a deactivated entity Inactive and the entity account
\* holds that state, past the timelock of the deactivation
C39_Witness ==
  \E r \in Evals :
    /\ r.before.state.tag = "PendingDeactivation"
    /\ r.before.state.timelock > 0
    /\ r.after.state.tag = "Inactive"
    /\ entity[r.e].state.tag = "Inactive"
    /\ clock > r.before.state.deactivation_start_ts + r.before.state.timelock

\* ---------------------------------------------------------------------- C40
\* the amounts of asset f (main and delegate leg) on the receipts of S that
\* are initialized, not burned and belong to a member of entity e
RECURSIVE ReceiptSum(_, _, _)
ReceiptSum(S, e, f) ==
  IF S = {} THEN 0
  ELSE LET w == CHOOSE x \in S : TRUE
           counted == /\ pw[w].initialized
                      /\ ~pw[w].burned
                      /\ pw[w].member \in Members
                      /\ member[pw[w].member].entity = e
       IN  (IF counted THEN pw[w].payment[f] + pw[w].delegate_payment[f] ELSE 0)
             + ReceiptSum(S \ {w}, e, f)

\* C40: in every reachable state an entity's pending_withdrawals and
\* mega_pending_withdrawals are the sums of the asset and mega-asset amounts
\* (main and delegate legs) of the unburned receipts of its members.
C40_PendingMatchesReceipts ==
  \A e \in Entities :
    /\ entity[e].balances.pending_withdrawals = ReceiptSum(Receipts, e, "asset")
    /\ entity[e].balances.mega_pending_withdrawals = ReceiptSum(Receipts, e, "mega_asset")

\* ---------------------------------------------------------------------- C32
\* the stake-intent, in asset f, of the books of the members of S that name
\* entity e
RECURSIVE MemberStakeIntent(_, _, _)
MemberStakeIntent(S, e, f) ==
  IF S = {} THEN 0
  ELSE LET m == CHOOSE x \in S : TRUE
       IN  (IF member[m].initialized /\ member[m].entity = e
            THEN member[m].books.main.balances[f] + member[m].books.delegate.balances[f]
            ELSE 0)
             + MemberStakeIntent(S \ {m}, e, f)

\* what concurrency must not break: the ledger is the one that running the
\* accepted operations one at a time in the order of their commits gives
C32_Serial ==
  rd.phase = "ledger" => entity = rd.serial.entity /\ member["m1"] = rd.serial.member

\* C32: operations submitted concurrently against the same Entity and Member
\* leave the ledger as running the accepted operations one at a time does: no
\* update is lost (the stake-intent held by the entities is the net amount
\* the accepted operations deposited) and each entity's stake-intent is the
\* sum over the books of its members.
C32_Serializable ==
  rd.phase = "ledger" =>
    /\ C32_Serial
    /\ entity["e1"].balances.stake_intent + entity["e2"].balances.stake_intent
         = rd.net.asset
    /\ entity["e1"].balances.mega_stake_intent + entity["e2"].balances.mega_stake_intent
         = rd.net.mega_asset
    /\ \A e \in Entities :
         /\ entity[e].balances.stake_intent = MemberStakeIntent(Members, e, "stake_intent")
         /\ entity[e].balances.mega_stake_intent
              = MemberStakeIntent(Members, e, "mega_stake_intent")

====
